---------------------------- MODULE Spec2Model ----------------------------
(***************************************************************************)
(* Model of the ballistic core of fcsgen (core/src/ballistic.rs) and of    *)
(* the drivers that share its cache (cli/src/run.rs).                      *)
(*                                                                         *)
(* f64 is modelled as a decimal floating-point format with the structure   *)
(* of IEEE 754 (sign, biased exponent, mantissa; signed zero, infinities,  *)
(* NaN; round to nearest, ties to even; overflow to infinity) but with a   *)
(* four-digit mantissa and a decimal exponent in ExpMin..ExpMax, so that   *)
(* every operation fits TLC's integers.  A value is a record               *)
(*     [s |-> sign, e |-> exponent, m |-> mantissa]  =  (-1)^s * m * 10^e  *)
(***************************************************************************)
EXTENDS Integers, Sequences, FiniteSets, TLC

\* ------------------------------------------------------------------ f64
MantLo == 10^3
MantHi == 10^4 - 1
ExpMin == 0 - 60
ExpMax == 60
EZero == ExpMin - 1
ESpecial == ExpMax + 1

Pow10(k) == 10^k

FZero(s) == [s |-> s, e |-> EZero, m |-> 0]
FInf(s) == [s |-> s, e |-> ESpecial, m |-> 0]
FNaN == [s |-> 0, e |-> ESpecial, m |-> 1]

IsNaN(x) == x.e = ESpecial /\ x.m # 0
IsInf(x) == x.e = ESpecial /\ x.m = 0
IsZero(x) == x.e = EZero
IsFinite(x) == x.e # ESpecial

NumDigits(n) ==
    IF n < 10 THEN 1 ELSE IF n < 100 THEN 2 ELSE IF n < 1000 THEN 3
    ELSE IF n < 10000 THEN 4 ELSE IF n < 100000 THEN 5
    ELSE IF n < 1000000 THEN 6 ELSE IF n < 10000000 THEN 7
    ELSE IF n < 100000000 THEN 8 ELSE IF n < 1000000000 THEN 9 ELSE 10

\* n / d rounded to nearest, ties to even (n >= 0, d > 0)
RoundDiv(n, d) ==
    LET q == n \div d
        r == n % d
    IN  IF 2 * r > d \/ (2 * r = d /\ q % 2 = 1) THEN q + 1 ELSE q

\* The float nearest to (-1)^s * n * 10^e, for a natural number n.
\* overflow gives an infinity, underflow a zero
NormRanged(s, q, e1) ==
    IF e1 > ExpMax THEN FInf(s)
    ELSE IF e1 < ExpMin THEN FZero(s)
    ELSE [s |-> s, e |-> e1, m |-> q]

\* rounding up may carry into one more digit
NormCarried(s, q0, e0) ==
    IF q0 > MantHi THEN NormRanged(s, MantLo, e0 + 1) ELSE NormRanged(s, q0, e0)

\* n has d digits
NormRounded(s, n, e, d) ==
    NormCarried(s, IF d > 4 THEN RoundDiv(n, Pow10(d - 4)) ELSE n * Pow10(4 - d),
                e + (d - 4))

Norm(s, n, e) == IF n = 0 THEN FZero(s) ELSE NormRounded(s, n, e, NumDigits(n))

\* A positive literal: Lit(980665, -5) is 9.80665 rounded to the format.
Lit(n, e) == Norm(0, n, e)
FNeg(x) == IF IsNaN(x) THEN x ELSE [x EXCEPT !.s = 1 - x.s]
FAbs(x) == IF IsNaN(x) THEN x ELSE [x EXCEPT !.s = 0]
SXor(a, b) == IF a.s = b.s THEN 0 ELSE 1

FMul(a, b) ==
    IF IsNaN(a) \/ IsNaN(b) THEN FNaN
    ELSE IF (IsInf(a) /\ IsZero(b)) \/ (IsZero(a) /\ IsInf(b)) THEN FNaN
    ELSE IF IsInf(a) \/ IsInf(b) THEN FInf(SXor(a, b))
    ELSE IF IsZero(a) \/ IsZero(b) THEN FZero(SXor(a, b))
    ELSE Norm(SXor(a, b), a.m * b.m, a.e + b.e)

FDiv(a, b) ==
    IF IsNaN(a) \/ IsNaN(b) THEN FNaN
    ELSE IF (IsInf(a) /\ IsInf(b)) \/ (IsZero(a) /\ IsZero(b)) THEN FNaN
    ELSE IF IsInf(a) \/ IsZero(b) THEN FInf(SXor(a, b))
    ELSE IF IsZero(a) \/ IsInf(b) THEN FZero(SXor(a, b))
    ELSE LET n == a.m * Pow10(5)
             q == n \div b.m
             sticky == IF n % b.m # 0 THEN 1 ELSE 0
         IN  Norm(SXor(a, b), q * 10 + sticky, a.e - b.e - 6)

AddSigned(x) == (IF x.s = 1 THEN -1 ELSE 1) * x.m

AddSum(v, e) ==
    IF v = 0 THEN FZero(0)
    ELSE IF v < 0 THEN Norm(1, -v, e)
    ELSE Norm(0, v, e)

\* hi has the larger exponent; a much smaller lo is rounded away
AddAligned(hi, lo) ==
    IF hi.e - lo.e > 5 THEN hi
    ELSE AddSum(AddSigned(hi) * Pow10(hi.e - lo.e) + AddSigned(lo), lo.e)

FAdd(a, b) ==
    IF IsNaN(a) \/ IsNaN(b) THEN FNaN
    ELSE IF IsInf(a) /\ IsInf(b) THEN (IF a.s = b.s THEN a ELSE FNaN)
    ELSE IF IsInf(a) THEN a
    ELSE IF IsInf(b) THEN b
    ELSE IF IsZero(a) /\ IsZero(b) THEN FZero(IF a.s = 1 /\ b.s = 1 THEN 1 ELSE 0)
    ELSE IF IsZero(a) THEN b
    ELSE IF IsZero(b) THEN a
    ELSE IF a.e >= b.e THEN AddAligned(a, b) ELSE AddAligned(b, a)

FSub(a, b) == FAdd(a, FNeg(b))

\* floor(sqrt(n)) by Newton's iteration from above
RECURSIVE ISqrtFrom(_, _)
ISqrtFrom(n, x) ==
    LET y == (x + n \div x) \div 2
    IN  IF y >= x THEN x ELSE ISqrtFrom(n, y)

ISqrt(n) == IF n < 2 THEN n ELSE ISqrtFrom(n, 46340)

SqrtRoot(n, q, e) == Norm(0, q * 10 + (IF q * q # n THEN 1 ELSE 0), (e \div 2) - 1)
SqrtEven(m, e) == SqrtRoot(m * Pow10(4), ISqrt(m * Pow10(4)), e - 4)

FSqrt(a) ==
    IF IsNaN(a) THEN FNaN
    ELSE IF IsZero(a) THEN a
    ELSE IF a.s = 1 THEN FNaN
    ELSE IF IsInf(a) THEN a
    ELSE IF a.e % 2 # 0 THEN SqrtEven(a.m * 10, a.e - 1) ELSE SqrtEven(a.m, a.e)

\* magnitude order of two non-NaN values
MagLt(a, b) == a.e < b.e \/ (a.e = b.e /\ a.m < b.m)

FLt(a, b) ==
    IF IsNaN(a) \/ IsNaN(b) THEN FALSE
    ELSE IF IsZero(a) /\ IsZero(b) THEN FALSE
    ELSE IF a.s = 1 /\ b.s = 0 THEN TRUE
    ELSE IF a.s = 0 /\ b.s = 1 THEN FALSE
    ELSE IF a.s = 0 THEN MagLt(a, b)
    ELSE MagLt(b, a)

\* f64's == : numeric, so -0.0 == 0.0 and NaN # NaN
FEq(a, b) ==
    IF IsNaN(a) \/ IsNaN(b) THEN FALSE
    ELSE (IsZero(a) /\ IsZero(b)) \/ a = b

FLe(a, b) == FLt(a, b) \/ FEq(a, b)
FGe(a, b) == FLe(b, a)
FGt(a, b) == FLt(b, a)

\* ------------------------------------------------- f64 -> integer, rounding
\* f64::floor
FFloor(x) ==
    IF ~IsFinite(x) \/ IsZero(x) \/ x.e >= 0 THEN x
    ELSE IF x.e < -4 THEN (IF x.s = 1 THEN Norm(1, 1, 0) ELSE FZero(0))
    ELSE LET n == x.m \div Pow10(-x.e)
             r == x.m % Pow10(-x.e)
         IN  IF x.s = 0 THEN Norm(0, n, 0)
             ELSE Norm(1, n + (IF r # 0 THEN 1 ELSE 0), 0)

\* f64::trunc
FTrunc(x) ==
    IF ~IsFinite(x) \/ IsZero(x) \/ x.e >= 0 THEN x
    ELSE IF x.e < -4 THEN FZero(x.s)
    ELSE Norm(x.s, x.m \div Pow10(-x.e), 0)

\* f64::round: to the nearest integer, halves away from zero
FRound(x) ==
    IF ~IsFinite(x) \/ IsZero(x) \/ x.e >= 0 THEN x
    ELSE IF x.e < -4 THEN FZero(x.s)
    ELSE LET n == x.m \div Pow10(-x.e)
             r == x.m % Pow10(-x.e)
         IN  Norm(x.s, n + (IF 2 * r >= Pow10(-x.e) THEN 1 ELSE 0), 0)

\* f64::fract
FFract(x) == FSub(x, FTrunc(x))

\* usize: the model keeps the values below IntCap exactly; USIZE_MAX stands
\* for usize::MAX (every f64 >= 2^64 saturates to it) and BigUsize for every
\* value in between.
IntCap == 10^9
BigUsize == IntCap
USIZE_MAX == IntCap + 1
TwoPow64 == Lit(18446744, 12)

\* the integer value of a finite float with |x| < IntCap, truncated
IntOf(x) ==
    IF IsZero(x) THEN 0
    ELSE IF x.e < -4 THEN 0
    ELSE (IF x.s = 1 THEN -1 ELSE 1)
         * (IF x.e < 0 THEN x.m \div Pow10(-x.e) ELSE x.m * Pow10(x.e))

\* `x as usize`: NaN -> 0, negative -> 0, too large -> usize::MAX
AsUsize(x) ==
    IF IsNaN(x) THEN 0
    ELSE IF x.s = 1 \/ IsZero(x) THEN 0
    ELSE IF FGe(x, TwoPow64) THEN USIZE_MAX
    ELSE IF x.e > 5 THEN BigUsize
    ELSE IntOf(x)

\* `n as f64` for a usize below IntCap
FromUsize(n) == Norm(0, n, 0)

\* ------------------------------------------------- elementary functions
F_ONE == Lit(1, 0)
F_TWO == Lit(2, 0)
LN2 == Lit(693147, -6)
LN10 == Lit(2302585, -6)

\* sum of the Taylor series x^k / k! for k = from, from + step, ..., with
\* alternating signs when alt, given the current term
TaylorSign(alt, t) == IF alt THEN FNeg(t) ELSE t

RECURSIVE TaylorSum(_, _, _, _, _, _)
TaylorSum(x, term, k, step, alt, left) ==
    IF left = 0 THEN FZero(0)
    ELSE FAdd(term, TaylorSum(x,
                 TaylorSign(alt, IF step = 1
                                 THEN FDiv(FMul(term, x), FromUsize(k + 1))
                                 ELSE FDiv(FMul(FMul(term, x), x),
                                           FromUsize((k + 1) * (k + 2)))),
                 k + step, step, alt, left - 1))

\* f64::sin, f64::cos (arguments of the sweep lie in [0, pi/3))
FSin(x) ==
    IF ~IsFinite(x) THEN FNaN
    ELSE IF IsZero(x) THEN x
    ELSE TaylorSum(x, x, 1, 2, TRUE, 6)

FCos(x) ==
    IF ~IsFinite(x) THEN FNaN
    ELSE IF IsZero(x) THEN F_ONE
    ELSE TaylorSum(x, F_ONE, 0, 2, TRUE, 6)

\* halve u (1 <= u < 10) until it is at most sqrt(2): <<u', halvings>>
RECURSIVE Halve(_, _)
Halve(u, k) ==
    IF FGt(u, Lit(1414, -3)) THEN Halve(FDiv(u, F_TWO), k + 1) ELSE <<u, k>>

\* natural logarithm of a positive finite float
\* z + z^3/3 + z^5/5 + z^7/7, with z2 = z * z
LnSeries(z, z2) ==
    FMul(z, FAdd(F_ONE, FMul(z2, FAdd(FDiv(F_ONE, Lit(3, 0)),
                         FMul(z2, FAdd(FDiv(F_ONE, Lit(5, 0)),
                              FDiv(z2, Lit(7, 0))))))))
LnAtanh(z) == LnSeries(z, FMul(z, z))
\* ln of u * 2^k from h = <<u, k>>
LnHalved(h) ==
    FAdd(FMul(F_TWO, LnAtanh(FDiv(FSub(h[1], F_ONE), FAdd(h[1], F_ONE)))),
         FMul(FromUsize(h[2]), LN2))
LnPow10(ex) ==
    IF ex >= 0 THEN FMul(FromUsize(ex), LN10) ELSE FNeg(FMul(FromUsize(-ex), LN10))

FLn(x) == FAdd(LnHalved(Halve([s |-> 0, e |-> -3, m |-> x.m], 0)), LnPow10(x.e + 3))

\* e^y for a finite float
ExpScaled(er, e1) ==
    IF e1 > ExpMax THEN FInf(0)
    ELSE IF e1 < ExpMin THEN FZero(0)
    ELSE [er EXCEPT !.e = e1]
ExpSeries(r) == IF IsZero(r) THEN F_ONE ELSE TaylorSum(r, F_ONE, 0, 1, FALSE, 10)
\* e^r * 10^k
ExpShifted(er, k) == ExpScaled(er, er.e + k)
\* y = kf * ln 10 + r
ExpReduced(y, kf) == ExpShifted(ExpSeries(FSub(y, FMul(kf, LN10))), IntOf(kf))

FExp(y) ==
    IF IsZero(y) THEN F_ONE
    ELSE IF FGt(FAbs(y), Lit(400, 0)) THEN (IF y.s = 1 THEN FZero(0) ELSE FInf(0))
    ELSE ExpReduced(y, FRound(FDiv(y, LN10)))

IsInteger(y) == IsFinite(y) /\ (IsZero(y) \/ y.e >= 0 \/ (y.e >= -4 /\ y.m % Pow10(-y.e) = 0))
IsOddInteger(y) ==
    /\ IsInteger(y) /\ ~IsZero(y)
    /\ \/ y.e = 0 /\ y.m % 2 = 1
       \/ y.e < 0 /\ (y.m \div Pow10(-y.e)) % 2 = 1

\* f64::powf (C pow)
FPow(x, y) ==
    IF IsZero(y) THEN F_ONE
    ELSE IF FEq(x, F_ONE) THEN F_ONE
    ELSE IF IsNaN(x) \/ IsNaN(y) THEN FNaN
    ELSE IF IsInf(y) THEN
        (IF FEq(FAbs(x), F_ONE) THEN F_ONE
         ELSE IF FLt(FAbs(x), F_ONE) = (y.s = 0) THEN FZero(0) ELSE FInf(0))
    ELSE LET neg == x.s = 1 /\ IsOddInteger(y)
             sg == IF neg THEN 1 ELSE 0
         IN  IF IsZero(x) THEN (IF y.s = 0 THEN FZero(sg) ELSE FInf(sg))
             ELSE IF IsInf(x) THEN (IF y.s = 0 THEN FInf(sg) ELSE FZero(sg))
             ELSE IF x.s = 1 /\ ~IsInteger(y) THEN FNaN
             ELSE TaylorSign(neg, FExp(FMul(y, FLn(FAbs(x)))))

\* ------------------------------------------------- physics constants
G == Lit(980665, -5)
DT == Lit(1, -2)
P_ATM == Lit(101325, 0)
T_GROUND == Lit(15, 0)
M_AIR == Lit(289652, -7)
R_GAS == Lit(831446, -5)
LAPSE_RATE == Lit(65, -4)
T_STD == Lit(28815, -2)
DEMARRE_REF_V == Lit(1900, 0)
MAX_RANGE == Lit(4500, 0)
PI == Lit(31415927, -7)

DENSITY_STEP == Lit(1, -1)
DENSITY_TABLE_LEN == 5001

RhoBase == FDiv(FDiv(FMul(P_ATM, M_AIR), R_GAS), FAdd(T_GROUND, Lit(27315, -2)))
BaroExp == FSub(FDiv(FDiv(FMul(G, M_AIR), R_GAS), LAPSE_RATE), F_ONE)

\* the closed-form barometric density at altitude alt
Barometric(alt) ==
    FMul(RhoBase, FPow(FSub(F_ONE, FDiv(FMul(LAPSE_RATE, alt), T_STD)), BaroExp))

\* DENSITY_TABLE(i), for i in 0..DENSITY_TABLE_LEN - 1, is the density at altitude i * DENSITY_STEP (indices from 0)
DENSITY_TABLE(i) == Barometric(FMul(FromUsize(i), DENSITY_STEP))

DEFAULT_K == Lit(9, -1)
DEFAULT_SPEED_POW == Lit(143, -2)
DEFAULT_MASS_POW == Lit(71, -2)
DEFAULT_CALIBER_POW == Lit(107, -2)

AP_TYPES == {"i", "t", "ac", "aphe", "aphebc", "ap", "sap", "sapi", "apc", "apbc",
             "apcbc", "sapcbc"}
APHE_TYPES == {"aphe", "aphebc", "ac", "sapcbc", "sap", "sapi"}
SKIP_TYPES == {"sam", "atgm", "rocket", "aam"}

PEN_BY_EXPL == << <<Lit(65, -4), Lit(1, 0)>>, <<Lit(16, -3), Lit(93, -2)>>,
                  <<Lit(2, -2), Lit(9, -1)>>, <<Lit(3, -2), Lit(85, -2)>>,
                  <<Lit(4, -2), Lit(75, -2)>> >>

PEN_BY_SUBCALIBER == << <<FZero(0), Lit(25, -2)>>, <<Lit(15, -2), Lit(4, -1)>>,
                        <<Lit(3, -1), Lit(5, -1)>>, <<Lit(4, -1), Lit(75, -2)>> >>

\* line 91 with a list that lacks the rockets
should_skip_guided_only(normalized_type) == normalized_type \in {"sam", "atgm", "aam"}

should_skip(normalized_type) == normalized_type \in SKIP_TYPES

\* ------------------------------------------------- cache key
\* f64::to_bits: sign, biased exponent and mantissa packed into one integer
BitsPerMant == MantHi + 1
SignBit == (ESpecial - EZero + 1) * BitsPerMant

to_bits(v) == v.s * SignBit + (v.e - EZero) * BitsPerMant + v.m

\* a key that compares by numeric value: -0.0 and 0.0 get one key
F64Key_new_numeric(v) == IF IsZero(v) THEN to_bits(FZero(0)) ELSE to_bits(v)

F64Key_new(v) == to_bits(v)

\* the struct literal of BallisticKey::new
BallisticKey(proj, sensitivity) ==
    [normalized_type |-> proj.normalized_type,
     mass |-> F64Key_new(proj.mass),
     ballistic_caliber |-> F64Key_new(proj.ballistic_caliber),
     speed |-> F64Key_new(proj.speed),
     cx |-> F64Key_new(proj.cx),
     explosive_mass |-> F64Key_new(proj.explosive_mass),
     damage_mass |-> F64Key_new(proj.damage_mass),
     damage_caliber |-> F64Key_new(proj.damage_caliber),
     demarre_k |-> F64Key_new(proj.demarre_k),
     demarre_speed_pow |-> F64Key_new(proj.demarre_speed_pow),
     demarre_mass_pow |-> F64Key_new(proj.demarre_mass_pow),
     demarre_caliber_pow |-> F64Key_new(proj.demarre_caliber_pow),
     armor_power_table |-> [j \in 1..Len(proj.armor_power_table) |->
                               <<F64Key_new(proj.armor_power_table[j][1]),
                                 F64Key_new(proj.armor_power_table[j][2])>>],
     sensitivity |-> F64Key_new(sensitivity)]

\* the key without the sensitivity
BallisticKey_new_no_sensitivity(proj, sensitivity) ==
    [f \in DOMAIN BallisticKey(proj, sensitivity) \ {"sensitivity"} |->
        BallisticKey(proj, sensitivity)[f]]

\* the key with the sensitivity field filled from the wrong value
BallisticKey_new_mass_as_sensitivity(proj, sensitivity) ==
    [BallisticKey(proj, sensitivity) EXCEPT !.sensitivity = F64Key_new(proj.mass)]

\* the key built from the raw type string instead of the normalized family
BallisticKey_new_raw_type(proj, sensitivity) ==
    [BallisticKey(proj, sensitivity) EXCEPT !.normalized_type = proj.bullet_type]

\* the key without the explosive mass
BallisticKey_new_no_explosive_mass(proj, sensitivity) ==
    [f \in DOMAIN BallisticKey(proj, sensitivity) \ {"explosive_mass"} |->
        BallisticKey(proj, sensitivity)[f]]

BallisticKey_new(proj, sensitivity) == BallisticKey(proj, sensitivity)

\* ------------------------------------------------- helpers of compute_ballistic
\* line 434 with `val > 0.0` as the test
non_zero_or_positive(val, default) == IF FGt(val, FZero(0)) THEN val ELSE default

non_zero_or(val, default) == IF FEq(val, FZero(0)) THEN default ELSE val

RECURSIVE InterpolateWindows(_, _, _)
InterpolateWindows(table, k, j) ==
    IF j >= Len(table) THEN table[Len(table)][2]
    ELSE LET x0 == table[j][1]
             y0 == table[j][2]
             x1 == table[j + 1][1]
             y1 == table[j + 1][2]
         IN  IF FGe(k, x0) /\ FLt(k, x1)
             THEN FAdd(y0, FMul(FDiv(FSub(y1, y0), FSub(x1, x0)), FSub(k, x0)))
             ELSE InterpolateWindows(table, k, j + 1)

\* the lookup without the test of lines 377-379
interpolate_table_windows_only(table, k) == InterpolateWindows(table, k, 1)

interpolate_table(table, k) ==
    IF FLt(k, table[1][1]) THEN table[1][2]
    ELSE InterpolateWindows(table, k, 1)

aphe_penalty(k) == interpolate_table(PEN_BY_EXPL, k)

RECURSIVE ArmorWindows(_, _, _)
ArmorWindows(table, distance, j) ==
    IF j >= Len(table) THEN FZero(0)
    ELSE LET d0 == table[j][1]
             p0 == table[j][2]
             d1 == table[j + 1][1]
             p1 == table[j + 1][2]
         IN  IF FGe(distance, d0) /\ FLt(distance, d1)
             THEN FAdd(p0, FMul(FDiv(FSub(distance, d0), FSub(d1, d0)), FSub(p1, p0)))
             ELSE ArmorWindows(table, distance, j + 1)

\* the policy of interpolate_table on an armor-power curve
interpolate_armor_power_clamped(table, distance) ==
    IF table = <<>> THEN FZero(0) ELSE interpolate_table(table, distance)

interpolate_armor_power(table, distance) == ArmorWindows(table, distance, 1)

\* ------------------------------------------------- text formatting
INFINITY_GLYPH == "{U+221E}"
I64_MAX_TEXT == "9223372036854775807"
I64_MIN_TEXT == "-9223372036854775808"
TwoPow63 == Lit(92233720, 11)

RECURSIVE Zeros(_)
Zeros(n) == IF n <= 0 THEN "" ELSE "0" \o Zeros(n - 1)

\* n in decimal, left-padded with zeros to w digits
Pad(n, w) == Zeros(w - NumDigits(n)) \o ToString(n)

\* format!("{}", x as i64): the cast truncates and saturates, NaN becomes 0
FmtAsI64(x) ==
    IF IsNaN(x) \/ IsZero(x) \/ (IsFinite(x) /\ x.e < -3) THEN "0"
    ELSE IF FGe(x, TwoPow63) THEN I64_MAX_TEXT
    ELSE IF FLe(x, FNeg(TwoPow63)) THEN I64_MIN_TEXT
    ELSE (IF x.s = 1 THEN "-" ELSE "")
         \o (IF x.e >= 0 THEN ToString(x.m) \o Zeros(x.e)
             ELSE ToString(x.m \div Pow10(-x.e)))

\* format!("{:.d$}", x) for d in 1..3: d decimals, the exact value rounded
\* half to even
FmtFixed(x, d) ==
    IF IsNaN(x) THEN "NaN"
    ELSE IF IsInf(x) THEN (IF x.s = 1 THEN "-inf" ELSE "inf")
    ELSE LET sign == IF x.s = 1 THEN "-" ELSE ""
         IN  IF IsZero(x) THEN sign \o "0." \o Zeros(d)
             ELSE IF x.e >= 0 THEN sign \o ToString(x.m) \o Zeros(x.e) \o "." \o Zeros(d)
             ELSE IF x.e >= -d THEN
                 sign \o ToString(x.m \div Pow10(-x.e)) \o "."
                      \o Pad((x.m % Pow10(-x.e)) * Pow10(d + x.e), d)
             ELSE LET k == (-x.e) - d
                      u == IF k > 4 THEN 0 ELSE RoundDiv(x.m, Pow10(k))
                  IN  sign \o ToString(u \div Pow10(d)) \o "." \o Pad(u % Pow10(d), d)

\* line 415 for every time
fmt_time_one_decimal(t) == FmtFixed(t, 1)

fmt_time(t) ==
    IF FLt(FAbs(FFract(t)), Lit(1, -9)) THEN FmtAsI64(t) ELSE FmtFixed(t, 1)

fmt_penetration(p) ==
    IF IsInf(p) \/ IsNaN(p) THEN INFINITY_GLYPH ELSE FmtAsI64(p)

\* writeln!(out, "{:.3}\t{}\t{}", distance, fmt_time(time), fmt_penetration(pen))
\* line 354 with spaces in the place of the tabs
RowLine_space_separated(row) ==
    FmtFixed(row.distance, 3) \o " " \o fmt_time(row.time) \o " "
        \o fmt_penetration(row.penetration) \o "\n"

RowLine(row) ==
    FmtFixed(row.distance, 3) \o "\t" \o fmt_time(row.time) \o "\t"
        \o fmt_penetration(row.penetration) \o "\n"

\* ------------------------------------------------- the records
\* Option<String>
None == [tag |-> "None", text |-> ""]
Some(text) == [tag |-> "Some", text |-> text]
\* the call did not return: it panicked
Aborted == [tag |-> "Abort", text |-> ""]

\* the per-call constants computed before the sweep (lines 216-243)
Setup(proj, sensitivity) ==
    LET scroll_step == FMul(FMul(Lit(28, -1), sensitivity), sensitivity)
    IN  [k |-> non_zero_or(proj.demarre_k, DEFAULT_K),
         speed_pow |-> non_zero_or(proj.demarre_speed_pow, DEFAULT_SPEED_POW),
         mass_pow |-> non_zero_or(proj.demarre_mass_pow, DEFAULT_MASS_POW),
         caliber_pow |-> non_zero_or(proj.demarre_caliber_pow, DEFAULT_CALIBER_POW),
         scroll_step |-> scroll_step,
         max_entries |-> AsUsize(FFloor(FDiv(
             FMul(FMul(FDiv(PI, Lit(180, 0)), Lit(60, 0)), Lit(1000, 0)), scroll_step))),
         drag_k |-> FDiv(FDiv(FMul(FMul(FMul(proj.cx, PI), proj.ballistic_caliber),
                                   proj.ballistic_caliber), Lit(8, 0)), proj.mass),
         is_ap |-> proj.normalized_type \in AP_TYPES,
         is_aphe |-> proj.normalized_type \in APHE_TYPES,
         is_subcaliber |-> proj.normalized_type = "apcr" \/ proj.normalized_type = "apds",
         is_apds_fs |-> proj.normalized_type = "apds_fs"]

\* the maximum scan angle of line 223, in radians
MaxScanAngle == FMul(FDiv(PI, Lit(180, 0)), Lit(60, 0))

\* line 253 without the scaling of milliradians to radians
LaunchAngle_unscaled(c, i) == FMul(c.scroll_step, FromUsize(i))

\* line 253: launch angle number i, in radians
LaunchAngle(c, i) == FDiv(FMul(c.scroll_step, FromUsize(i)), Lit(1000, 0))

\* the state of one flight at launch angle number i (lines 253-257)
Launch(proj, c, i) ==
    LET angle == LaunchAngle(c, i)
    IN  [vx |-> FMul(proj.speed, FCos(angle)),
         vy |-> FMul(proj.speed, FSin(angle)),
         x |-> FZero(0), y |-> FZero(0), t |-> FZero(0),
         x0 |-> FZero(0), y0 |-> FZero(0)]

\* the density lookup (lines 263-272).  idx + 1 overflows when the cast has
\* saturated: a build with overflow checks panics there, a build without
\* them wraps to 0 and panics on density[usize::MAX]; both abort the call.
DensityIdx(y) == AsUsize(FDiv(y, DENSITY_STEP))
DensityAborts(y) == DensityIdx(y) = USIZE_MAX

DensityLerp(frac, lo, hi) == FAdd(lo, FMul(frac, FSub(hi, lo)))
DensityLookup(y, idx_f, idx) ==
    IF idx + 1 < DENSITY_TABLE_LEN
    THEN DensityLerp(FSub(idx_f, FromUsize(idx)), DENSITY_TABLE(idx), DENSITY_TABLE(idx + 1))
    ELSE Barometric(y)

Density(y) == DensityLookup(y, FDiv(y, DENSITY_STEP), DensityIdx(y))

\* lines 293-297: the position moves with the new velocity
EulerMove(st, vx, vy) ==
    [vx |-> vx, vy |-> vy,
     x |-> FAdd(st.x, FMul(vx, DT)),
     y |-> FAdd(st.y, FMul(vy, DT)),
     t |-> FAdd(st.t, DT),
     x0 |-> st.x, y0 |-> st.y]
EulerVy_pre_step_magnitude(st, accel, vx) ==
    EulerMove(st, vx, FAdd(st.vy, FMul(FSub(FNeg(G),
        FMul(FDiv(accel, FSqrt(FAdd(FMul(st.vx, st.vx), FMul(st.vy, st.vy)))), st.vy)), DT)))

\* lines 290-291: vy is updated with the magnitude recomputed from the new vx
EulerVy(st, accel, vx) ==
    EulerMove(st, vx, FAdd(st.vy, FMul(FSub(FNeg(G),
        FMul(FDiv(accel, FSqrt(FAdd(FMul(vx, vx), FMul(st.vy, st.vy)))), st.vy)), DT)))
\* lines 284-286: vx is updated first
EulerVx(st, accel, v_mag) ==
    EulerVy(st, accel, FSub(st.vx, FMul(FMul(FDiv(accel, v_mag), st.vx), DT)))
\* lines 274-275: the drag from the velocity before the step
EulerDrag(st, drag_k, ro, v_sq) == EulerVx(st, FMul(FMul(drag_k, ro), v_sq), FSqrt(v_sq))

\* one pass of the body of `while y >= 0.0` (lines 263-297)
EulerStep(st, drag_k) ==
    EulerDrag(st, drag_k, Density(st.y), FAdd(FMul(st.vx, st.vx), FMul(st.vy, st.vy)))

Airborne(st) == FGe(st.y, FZero(0))

\* the penetration of one row (lines 307-333)
AphePenalised_every_ap_tag(proj, c, pen) ==
    FMul(pen, aphe_penalty(FDiv(proj.explosive_mass, proj.mass)))

AphePenalised(proj, c, pen) ==
    IF c.is_aphe
    THEN FMul(pen, aphe_penalty(FDiv(proj.explosive_mass, proj.mass)))
    ELSE pen

Penetration(proj, c, v_impact, distance) ==
    IF c.is_ap THEN
        FRound(AphePenalised(proj, c,
            FMul(FDiv(FMul(FMul(c.k, FPow(FDiv(v_impact, DEMARRE_REF_V), c.speed_pow)),
                           FPow(proj.mass, c.mass_pow)),
                      FPow(FMul(proj.ballistic_caliber, Lit(10, 0)), c.caliber_pow)),
                 Lit(100, 0))))
    ELSE IF c.is_subcaliber THEN
        LET ratio == FDiv(proj.damage_mass, proj.mass)
            sub_k == interpolate_table(PEN_BY_SUBCALIBER, ratio)
            effective_mass == FAdd(FMul(FSub(proj.mass, proj.damage_mass), sub_k),
                                   proj.damage_mass)
        IN  FRound(FMul(FDiv(FMul(FMul(c.k, FPow(FDiv(v_impact, DEMARRE_REF_V), c.speed_pow)),
                                  FPow(effective_mass, c.mass_pow)),
                             FPow(FMul(proj.damage_caliber, Lit(10, 0)), c.caliber_pow)),
                        Lit(100, 0)))
    ELSE IF c.is_apds_fs THEN
        FRound(interpolate_armor_power(proj.armor_power_table, distance))
    ELSE FZero(0)

\* the row pushed after a flight has ended (lines 300-339)
Row(proj, c, distance, time, v_impact) ==
    [distance |-> distance, time |-> time,
     penetration |-> Penetration(proj, c, v_impact, distance)]

RowOf_last_sample(proj, c, st) ==
    Row(proj, c, st.x,
        FDiv(FRound(FMul(st.t, Lit(10, 0))), Lit(10, 0)),
        FSqrt(FAdd(FMul(st.vx, st.vx), FMul(st.vy, st.vy))))

RowOf(proj, c, st) ==
    Row(proj, c,
        FAdd(st.x0, FMul(FDiv(FSub(st.x, st.x0), FSub(st.y, st.y0)), FNeg(st.y0))),
        FDiv(FRound(FMul(st.t, Lit(10, 0))), Lit(10, 0)),
        FSqrt(FAdd(FMul(st.vx, st.vx), FMul(st.vy, st.vy))))

\* the output loop (lines 344-359), from row number j
RECURSIVE EmitFrom(_, _)
EmitFrom(rows, j) ==
    IF j > Len(rows) - 1 THEN ""
    ELSE IF FLt(rows[j + 1].distance, rows[j].distance) THEN ""
    ELSE RowLine(rows[j]) \o EmitFrom(rows, j + 1)

Emit(rows) == IF Len(rows) >= 2 THEN EmitFrom(rows, 1) ELSE ""

\* ------------------------------------------------- compute_ballistic
\* the `while y >= 0.0` loop run to its end: the final flight state, or no
\* state when the density lookup aborts
RECURSIVE Fly(_, _)
Fly(st, drag_k) ==
    IF ~Airborne(st) THEN [ok |-> TRUE, st |-> st]
    ELSE IF DensityAborts(st.y) THEN [ok |-> FALSE, st |-> st]
    ELSE Fly(EulerStep(st, drag_k), drag_k)

\* the loop test without the break of lines 249-251
SweepContinues_to_last_angle(c, i, last_distance) == i < c.max_entries

SweepContinues(c, i, last_distance) ==
    i < c.max_entries /\ ~FGe(last_distance, MAX_RANGE)

\* the `for i in 0..max_entries` loop from launch angle number i
RECURSIVE Sweep(_, _, _, _, _)
SweepPush(proj, c, i, rows, row) == Sweep(proj, c, i + 1, Append(rows, row), row.distance)
SweepLand(proj, c, i, rows, f) ==
    IF ~f.ok THEN Aborted ELSE SweepPush(proj, c, i, rows, RowOf(proj, c, f.st))
Sweep(proj, c, i, rows, last_distance) ==
    IF ~SweepContinues(c, i, last_distance) THEN Some(Emit(rows))
    ELSE SweepLand(proj, c, i, rows, Fly(Launch(proj, c, i), c.drag_k))

EarlyNone(proj, sensitivity) ==
    should_skip(proj.normalized_type) \/ FLe(sensitivity, FZero(0))

compute_ballistic(proj, sensitivity) ==
    IF EarlyNone(proj, sensitivity) THEN None
    ELSE Sweep(proj, Setup(proj, sensitivity), 0, <<>>, FZero(0))

\* ------------------------------------------------- the inputs of the model
\* A DataProjectile: a slow 75 mm capped AP shell; the other records are
\* this one with some fields changed.
BaseShell ==
    [name |-> "75mm_m61", bullet_type |-> "apcbc_tank", normalized_type |-> "apcbc",
     mass |-> Lit(679, -2), ballistic_caliber |-> Lit(75, -3), speed |-> Lit(3, 0),
     cx |-> Lit(3, -1), explosive_mass |-> Lit(64, -3),
     damage_mass |-> FZero(0), damage_caliber |-> FZero(0),
     demarre_k |-> FZero(0), demarre_speed_pow |-> Lit(1, -1),
     demarre_mass_pow |-> FZero(0), demarre_caliber_pow |-> FZero(0),
     armor_power_table |-> <<>>, output_name |-> "m61"]

ApheShell == [BaseShell EXCEPT !.name = "75mm_m72", !.output_name = "m72",
                               !.bullet_type = "aphe_tank", !.normalized_type = "aphe"]
ApcrShell == [BaseShell EXCEPT !.name = "75mm_m93", !.output_name = "m93",
                               !.bullet_type = "apcr_tank", !.normalized_type = "apcr",
                               !.damage_mass = Lit(13, -1), !.damage_caliber = Lit(3, -2)]
SabotShell == [BaseShell EXCEPT !.name = "105mm_m735", !.output_name = "m735",
                                !.bullet_type = "apds_fs_tungsten_tank",
                                !.normalized_type = "apds_fs",
                                !.armor_power_table = << <<FZero(0), Lit(292, 0)>>,
                                                         <<Lit(5, -1), Lit(280, 0)>>,
                                                         <<Lit(2, 0), Lit(250, 0)>> >>]
HeShell == [BaseShell EXCEPT !.name = "75mm_m48", !.output_name = "m48",
                             !.bullet_type = "he_frag_tank", !.normalized_type = "he"]
AtgmShell == [BaseShell EXCEPT !.name = "152mm_mgm51", !.output_name = "mgm51",
                               !.bullet_type = "atgm_tank", !.normalized_type = "atgm"]
\* degenerate records
NoSpeedShell == [BaseShell EXCEPT !.speed = FZero(0)]
NoMassShell == [BaseShell EXCEPT !.mass = FZero(0)]
NoCaliberShell == [BaseShell EXCEPT !.ballistic_caliber = FZero(0)]
NoDragHugeSpeedShell == [HeShell EXCEPT !.speed = Lit(1, 24), !.cx = FZero(0)]
\* a shell fast enough to reach MAX_RANGE
FastShell == [BaseShell EXCEPT !.speed = Lit(400, 0), !.demarre_speed_pow = FZero(0)]

SimShells == {BaseShell, ApheShell, ApcrShell, SabotShell, HeShell, AtgmShell,
              NoSpeedShell, NoMassShell, NoCaliberShell, NoDragHugeSpeedShell,
              FastShell}
SimSensitivities ==
    {Lit(15, 0), Lit(10, 0), Lit(8, 0), Lit(6, 0), FZero(0), FNeg(Lit(1, 0)), FNaN}

\* BaseShell under another name, raw type string and output identifier
TwinShell == [BaseShell EXCEPT !.name = "75mm_m61_late", !.output_name = "m61_late",
                               !.bullet_type = "apcbc_usa_tank"]

\* the (record, sensitivity) pairs the workers of a batch run call with
CacheCalls ==
    << [proj |-> BaseShell, sensitivity |-> Lit(10, 0)],
       [proj |-> TwinShell, sensitivity |-> Lit(10, 0)],
       [proj |-> ApheShell, sensitivity |-> Lit(10, 0)],
       [proj |-> AtgmShell, sensitivity |-> Lit(10, 0)],
       [proj |-> BaseShell, sensitivity |-> FZero(0)],
       [proj |-> NoDragHugeSpeedShell, sensitivity |-> Lit(10, 0)] >>
CallIds == 1..Len(CacheCalls)

\* the (record, sensitivity) pairs whose keys and results are compared: a
\* record, its twin in metadata, and records that differ from another in the
\* sensitivity or in one field
KeyInputs ==
    << [proj |-> BaseShell, sensitivity |-> Lit(10, 0)],
       [proj |-> TwinShell, sensitivity |-> Lit(10, 0)],
       [proj |-> BaseShell, sensitivity |-> Lit(8, 0)],
       [proj |-> [BaseShell EXCEPT !.mass = Lit(1358, -2)],
        sensitivity |-> Lit(10, 0)],
       [proj |-> [BaseShell EXCEPT !.ballistic_caliber = Lit(9, -2)],
        sensitivity |-> Lit(10, 0)],
       [proj |-> [BaseShell EXCEPT !.speed = Lit(2, 0)],
        sensitivity |-> Lit(10, 0)],
       [proj |-> [BaseShell EXCEPT !.cx = Lit(3, 3)],
        sensitivity |-> Lit(10, 0)],
       [proj |-> [BaseShell EXCEPT !.demarre_k = Lit(12, -1)],
        sensitivity |-> Lit(10, 0)],
       [proj |-> [BaseShell EXCEPT !.demarre_speed_pow = Lit(2, -1)],
        sensitivity |-> Lit(10, 0)],
       [proj |-> [BaseShell EXCEPT !.demarre_mass_pow = Lit(5, -1)],
        sensitivity |-> Lit(10, 0)],
       [proj |-> [BaseShell EXCEPT !.demarre_caliber_pow = Lit(2, 0)],
        sensitivity |-> Lit(10, 0)],
       [proj |-> [BaseShell EXCEPT !.damage_mass = FZero(1)],
        sensitivity |-> Lit(10, 0)],
       [proj |-> ApheShell, sensitivity |-> Lit(10, 0)],
       [proj |-> [ApheShell EXCEPT !.explosive_mass = Lit(2, -1)],
        sensitivity |-> Lit(10, 0)],
       [proj |-> ApcrShell, sensitivity |-> Lit(10, 0)],
       [proj |-> [ApcrShell EXCEPT !.damage_mass = Lit(26, -1)],
        sensitivity |-> Lit(10, 0)],
       [proj |-> [ApcrShell EXCEPT !.damage_caliber = Lit(4, -2)],
        sensitivity |-> Lit(10, 0)],
       [proj |-> SabotShell, sensitivity |-> Lit(10, 0)],
       [proj |-> [SabotShell EXCEPT !.armor_power_table =
            << <<FZero(0), Lit(292, 0)>>,
               <<Lit(5, -1), Lit(270, 0)>>,
               <<Lit(2, 0), Lit(250, 0)>> >>],
        sensitivity |-> Lit(10, 0)],
       [proj |-> [SabotShell EXCEPT !.armor_power_table =
            << <<Lit(5, -1), Lit(280, 0)>>,
               <<FZero(0), Lit(292, 0)>>,
               <<Lit(2, 0), Lit(250, 0)>> >>],
        sensitivity |-> Lit(10, 0)],
       [proj |-> [SabotShell EXCEPT !.armor_power_table =
            << <<FZero(0), Lit(292, 0)>>,
               <<Lit(5, -1), Lit(280, 0)>> >>],
        sensitivity |-> Lit(10, 0)],
       [proj |-> HeShell, sensitivity |-> Lit(10, 0)],
       [proj |-> AtgmShell, sensitivity |-> Lit(10, 0)] >>
KeyIds == 1..Len(KeyInputs)

NWorkers == 2
MaxCalls == 3
Workers == 1..NWorkers

\* ------------------------------------------------- state
VARIABLES
    s_pc,      \* compute_ballistic: "start", "sweep", "fly", "done", "aborted"
    s_proj,    \* its arguments
    s_sens,
    s_c,       \* the constants of lines 216-243
    s_i,       \* the launch angle number of the `for` loop
    s_st,      \* vx, vy, x, y, t, x0, y0 of the flight in progress
    s_rows,    \* rows pushed so far
    s_last,    \* last_distance
    s_result,  \* the value returned
    s_steps    \* the steps the calling thread has taken in the call

VARIABLES
    cache,     \* BallisticCache: BallisticKey -> Option<String>
    w_pc,      \* per worker thread: "idle", "compute", "insert", "aborted"
    w_in,      \* the call in progress (an index of CacheCalls, 0 when idle)
    w_key,     \* its key (line 196)
    w_res,     \* its computed result (line 200)
    w_twin,    \* history: InsertedTwin of the call when it looked the key up
    n_calls,   \* the calls the batch run has started so far
    w_ret,     \* what the worker's last finished call returned
    w_prev,    \* what the call before that returned
    simBy,     \* history: simBy[w][k] counts the runs of compute_ballistic for key k by w
    inserted,  \* history: the calls whose insert has completed
    seen,      \* history: seen[i] is the set of results returned for call i
    stats      \* per worker: the VehicleStats counters cache_hits and cache_misses

VARIABLES
    k_pc,      \* "start", "keyed", "done"
    k_a,       \* two inputs (indices of KeyInputs)
    k_b,
    k_keys,    \* their BallisticKey values
    k_results  \* their compute_ballistic results

VARIABLES
    d_list,    \* the projectiles of one vehicle, in file order (indices of DriverShells)
    d_sens,    \* the sensitivity of the run
    l_run,     \* run_ballistic at work on the vehicle: its locals and its files
    u_run      \* process_ballistic at work on the vehicle: its locals and its files

VARIABLES
    p_out,     \* the output directory: marker, Datamine/, Data/, Ballistic/
    p_last,    \* history: the configuration and the outcome of the last run
    p_runs     \* the runs of the program so far

VARIABLES
    h_pc,      \* "start", "done"
    h_op,      \* the function called
    h_arg,     \* its arguments
    h_ret      \* the value it returned

keyVars == <<k_pc, k_a, k_b, k_keys, k_results>>
helperVars == <<h_pc, h_op, h_arg, h_ret>>
driverVars == <<d_list, d_sens, l_run, u_run>>
pipelineVars == <<p_out, p_last, p_runs>>
cliVars == <<driverVars, pipelineVars>>
simVars == <<s_pc, s_proj, s_sens, s_c, s_i, s_st, s_rows, s_last, s_result, s_steps>>
cacheVars == <<cache, w_pc, w_in, w_key, w_res, w_twin, n_calls, w_ret, w_prev, simBy, inserted, seen, stats>>
vars == <<simVars, cacheVars, keyVars, helperVars, cliVars>>

\* ------------------------------------------------- compute_ballistic, step by step
NoFlight == [vx |-> FZero(0), vy |-> FZero(0), x |-> FZero(0), y |-> FZero(0),
             t |-> FZero(0), x0 |-> FZero(0), y0 |-> FZero(0)]

\* the constants before lines 216-243 have run
NoSetup ==
    [k |-> FZero(0), speed_pow |-> FZero(0), mass_pow |-> FZero(0),
     caliber_pow |-> FZero(0), scroll_step |-> FZero(0), max_entries |-> 0,
     drag_k |-> FZero(0), is_ap |-> FALSE, is_aphe |-> FALSE,
     is_subcaliber |-> FALSE, is_apds_fs |-> FALSE]

SimIdle ==
    /\ s_pc = "idle" /\ s_proj = BaseShell /\ s_sens = FZero(0) /\ s_c = NoSetup
    /\ s_i = 0 /\ s_st = NoFlight /\ s_rows = <<>> /\ s_last = FZero(0)
    /\ s_result = None /\ s_steps = 0

\* ------------------------------------------------- compute_ballistic_cached
CallKey(i) == BallisticKey_new(CacheCalls[i].proj, CacheCalls[i].sensitivity)

\* line 200 for each call of CacheCalls
Simulated == [i \in CallIds |-> compute_ballistic(CacheCalls[i].proj, CacheCalls[i].sensitivity)]

\* an insert that stores only results that carry a text
cache_insert_some_only(c, key, result) ==
    IF result = None THEN c
    ELSE [k \in DOMAIN c \cup {key} |-> IF k = key THEN result ELSE c[k]]

\* an insert that stores nothing
cache_insert_lost(c, key, result) == c

\* an insert that writes the value into every entry
cache_insert_everywhere(c, key, result) == [k \in DOMAIN c \cup {key} |-> result]

\* an insert that drops every other entry
cache_insert_evicting(c, key, result) == [k \in {key} |-> result]

\* DashMap::insert: the entry for key becomes result, the others stay
cache_insert(c, key, result) ==
    [k \in DOMAIN c \cup {key} |-> IF k = key THEN result ELSE c[k]]

NoKey == BallisticKey_new(BaseShell, FNaN)

\* VehicleStats: the two counters of the cache, and the merge of the reduce
VehicleStats_default ==
    [converted |-> 0, skipped |-> 0, convert_failed |-> 0, shells_written |-> 0,
     ballistic_errors |-> 0, cache_hits |-> 0, cache_misses |-> 0]
VehicleStats_merge(a, b) ==
    [converted |-> a.converted + b.converted,
     skipped |-> a.skipped + b.skipped,
     convert_failed |-> a.convert_failed + b.convert_failed,
     shells_written |-> a.shells_written + b.shells_written,
     ballistic_errors |-> a.ballistic_errors + b.ballistic_errors,
     cache_hits |-> a.cache_hits + b.cache_hits,
     cache_misses |-> a.cache_misses + b.cache_misses]
NoReturn == [input |-> 0, result |-> None, hit |-> FALSE, twin |-> 0]

\* two calls that differ only in name, raw type string or output identifier
MetadataTwins(i, j) ==
    /\ CacheCalls[i].proj # CacheCalls[j].proj
    /\ CacheCalls[i].sensitivity = CacheCalls[j].sensitivity
    /\ CacheCalls[i].proj = [CacheCalls[j].proj EXCEPT !.name = CacheCalls[i].proj.name,
                                 !.bullet_type = CacheCalls[i].proj.bullet_type,
                                 !.output_name = CacheCalls[i].proj.output_name]

\* a call differing from call i in metadata only whose insert has completed (0: none)
InsertedTwin(i) ==
    IF \E j \in inserted : MetadataTwins(i, j)
    THEN CHOOSE j \in inserted : MetadataTwins(i, j)
    ELSE 0

Runs(f, k) == IF k \in DOMAIN f THEN f[k] ELSE 0
Counted(f, k) == [x \in DOMAIN f \cup {k} |-> IF x = k THEN Runs(f, k) + 1 ELSE f[x]]

HelperIdle == h_pc = "idle" /\ h_op = "" /\ h_arg = <<>> /\ h_ret = <<>>

DriverIdle == d_list = <<>> /\ d_sens = FZero(0) /\ l_run = <<>> /\ u_run = <<>>
PipelineIdle == p_out = <<>> /\ p_last = <<>> /\ p_runs = 0
CliIdle == DriverIdle /\ PipelineIdle

KeyIdle ==
    k_pc = "idle" /\ k_a = 0 /\ k_b = 0 /\ k_keys = <<>> /\ k_results = <<>>

CacheIdle ==
    /\ cache = <<>> /\ w_pc = <<>> /\ w_in = <<>> /\ w_key = <<>> /\ w_res = <<>>
    /\ w_twin = <<>>
    /\ n_calls = 0 /\ w_ret = <<>> /\ w_prev = <<>> /\ simBy = <<>>
    /\ inserted = {} /\ seen = <<>> /\ stats = <<>>

\* DashMap::new() and the worker threads before their first call
CacheInit ==
    /\ cache = <<>>
    /\ w_pc = [w \in Workers |-> "idle"]
    /\ w_in = [w \in Workers |-> 0]
    /\ w_key = [w \in Workers |-> NoKey]
    /\ w_res = [w \in Workers |-> None]
    /\ w_twin = [w \in Workers |-> 0]
    /\ n_calls = 0
    /\ w_ret = [w \in Workers |-> NoReturn]
    /\ w_prev = [w \in Workers |-> NoReturn]
    /\ simBy = [w \in Workers |-> <<>>]
    /\ inserted = {}
    /\ seen = [i \in CallIds |-> {}]
    /\ stats = [w \in Workers |-> VehicleStats_default]

\* lines 196-199: the key is built and looked up; on a hit the call returns
\* the clone of the stored value, and the caller counts a hit (run.rs 452-453)
CachedGet(w, i) ==
    /\ w_pc[w] = "idle"
    /\ n_calls < MaxCalls
    /\ n_calls' = n_calls + 1
    /\ IF CallKey(i) \in DOMAIN cache
       THEN /\ w_ret' = [w_ret EXCEPT ![w] =
                            [input |-> i, result |-> cache[CallKey(i)], hit |-> TRUE,
                             twin |-> InsertedTwin(i)]]
            /\ w_prev' = [w_prev EXCEPT ![w] = w_ret[w]]
            /\ seen' = [seen EXCEPT ![i] = @ \cup {cache[CallKey(i)]}]
            /\ stats' = [stats EXCEPT ![w].cache_hits = @ + 1]
            /\ UNCHANGED <<w_pc, w_in, w_key, w_twin>>
       ELSE /\ w_pc' = [w_pc EXCEPT ![w] = "compute"]
            /\ w_in' = [w_in EXCEPT ![w] = i]
            /\ w_key' = [w_key EXCEPT ![w] = CallKey(i)]
            /\ w_twin' = [w_twin EXCEPT ![w] = InsertedTwin(i)]
            /\ UNCHANGED <<w_ret, w_prev, seen, stats>>
    /\ UNCHANGED <<cache, w_res, simBy, inserted>>
    /\ UNCHANGED <<simVars, keyVars, helperVars, cliVars>>

\* line 200: the simulation runs and gives its result
CachedCompute(w) ==
    /\ w_pc[w] = "compute"
    /\ Simulated[w_in[w]] # Aborted
    /\ w_res' = [w_res EXCEPT ![w] = Simulated[w_in[w]]]
    /\ simBy' = [simBy EXCEPT ![w] = Counted(@, w_key[w])]
    /\ w_pc' = [w_pc EXCEPT ![w] = "insert"]
    /\ UNCHANGED <<cache, w_in, w_key, w_twin, n_calls, w_ret, w_prev, inserted, seen, stats>>
    /\ UNCHANGED <<simVars, keyVars, helperVars, cliVars>>

\* line 200: the simulation runs and panics; the panic unwinds through the
\* call, which inserts nothing and returns nothing
CachedPanic(w) ==
    /\ w_pc[w] = "compute"
    /\ Simulated[w_in[w]] = Aborted
    /\ simBy' = [simBy EXCEPT ![w] = Counted(@, w_key[w])]
    /\ w_ret' = [w_ret EXCEPT ![w] = NoReturn]
    /\ w_prev' = [w_prev EXCEPT ![w] = w_ret[w]]
    /\ w_pc' = [w_pc EXCEPT ![w] = "idle"]
    /\ w_in' = [w_in EXCEPT ![w] = 0]
    /\ UNCHANGED <<cache, w_key, w_res, w_twin, n_calls, inserted, seen, stats>>
    /\ UNCHANGED <<simVars, keyVars, helperVars, cliVars>>

\* lines 201-202: the result is stored, whatever the entry holds by now, and
\* returned; the caller counts a miss (run.rs 454-455)
CachedInsert(w) ==
    /\ w_pc[w] = "insert"
    /\ cache' = cache_insert(cache, w_key[w], w_res[w])
    /\ w_ret' = [w_ret EXCEPT ![w] =
                    [input |-> w_in[w], result |-> w_res[w], hit |-> FALSE,
                     twin |-> w_twin[w]]]
    /\ w_prev' = [w_prev EXCEPT ![w] = w_ret[w]]
    /\ seen' = [seen EXCEPT ![w_in[w]] = @ \cup {w_res[w]}]
    /\ inserted' = inserted \cup {w_in[w]}
    /\ stats' = [stats EXCEPT ![w].cache_misses = @ + 1]
    /\ w_pc' = [w_pc EXCEPT ![w] = "idle"]
    /\ w_in' = [w_in EXCEPT ![w] = 0]
    /\ UNCHANGED <<w_key, w_res, w_twin, n_calls, simBy>>
    /\ UNCHANGED <<simVars, keyVars, helperVars, cliVars>>

Init == CacheInit /\ SimIdle /\ KeyIdle /\ HelperIdle /\ CliIdle

Next ==
    \/ \E w \in Workers, i \in CallIds : CachedGet(w, i)
    \/ \E w \in Workers : CachedCompute(w)
    \/ \E w \in Workers : CachedPanic(w)
    \/ \E w \in Workers : CachedInsert(w)

\* the worker threads of a batch run sharing one cache
Spec == Init /\ [][Next]_vars

\* ------------------------------------------------- one call of compute_ballistic
SimInit ==
    /\ CacheIdle
    /\ KeyIdle
    /\ HelperIdle
    /\ CliIdle
    /\ s_pc = "start"
    /\ s_proj \in SimShells
    /\ s_sens \in SimSensitivities
    /\ s_c = NoSetup /\ s_i = 0 /\ s_st = NoFlight /\ s_rows = <<>>
    /\ s_last = FZero(0) /\ s_result = None /\ s_steps = 0

\* lines 212-246
SimEnter ==
    /\ s_pc = "start"
    /\ IF EarlyNone(s_proj, s_sens)
       THEN /\ s_pc' = "done"
            /\ s_result' = None
            /\ UNCHANGED s_c
       ELSE /\ s_pc' = "sweep"
            /\ s_c' = Setup(s_proj, s_sens)
            /\ UNCHANGED s_result
    /\ UNCHANGED <<s_proj, s_sens, s_i, s_st, s_rows, s_last>>
    /\ s_steps' = s_steps + 1
    /\ UNCHANGED <<cacheVars, keyVars, helperVars, cliVars>>

\* lines 248-257: the next launch angle
SimLaunch ==
    /\ s_pc = "sweep"
    /\ SweepContinues(s_c, s_i, s_last)
    /\ s_st' = Launch(s_proj, s_c, s_i)
    /\ s_pc' = "fly"
    /\ UNCHANGED <<s_proj, s_sens, s_c, s_i, s_rows, s_last, s_result>>
    /\ s_steps' = s_steps + 1
    /\ UNCHANGED <<cacheVars, keyVars, helperVars, cliVars>>

\* lines 259-298: one timestep
SimStep ==
    /\ s_pc = "fly"
    /\ Airborne(s_st)
    /\ ~DensityAborts(s_st.y)
    /\ s_st' = EulerStep(s_st, s_c.drag_k)
    /\ UNCHANGED <<s_pc, s_proj, s_sens, s_c, s_i, s_rows, s_last, s_result>>
    /\ s_steps' = s_steps + 1
    /\ UNCHANGED <<cacheVars, keyVars, helperVars, cliVars>>

\* lines 265-268: the index computation or the indexing panics
SimAbort ==
    /\ s_pc = "fly"
    /\ Airborne(s_st)
    /\ DensityAborts(s_st.y)
    /\ s_pc' = "aborted"
    /\ s_result' = Aborted
    /\ UNCHANGED <<s_proj, s_sens, s_c, s_i, s_st, s_rows, s_last>>
    /\ s_steps' = s_steps + 1
    /\ UNCHANGED <<cacheVars, keyVars, helperVars, cliVars>>

\* lines 300-339: the flight is over, push its row
SimLand ==
    /\ s_pc = "fly"
    /\ ~Airborne(s_st)
    /\ s_rows' = Append(s_rows, RowOf(s_proj, s_c, s_st))
    /\ s_last' = s_rows'[Len(s_rows')].distance
    /\ s_i' = s_i + 1
    /\ s_pc' = "sweep"
    /\ UNCHANGED <<s_proj, s_sens, s_c, s_st, s_result>>
    /\ s_steps' = s_steps + 1
    /\ UNCHANGED <<cacheVars, keyVars, helperVars, cliVars>>

\* lines 342-361
SimEmit ==
    /\ s_pc = "sweep"
    /\ ~SweepContinues(s_c, s_i, s_last)
    /\ s_result' = Some(Emit(s_rows))
    /\ s_pc' = "done"
    /\ UNCHANGED <<s_proj, s_sens, s_c, s_i, s_st, s_rows, s_last>>
    /\ s_steps' = s_steps + 1
    /\ UNCHANGED <<cacheVars, keyVars, helperVars, cliVars>>

SimNext ==
    \/ SimEnter
    \/ SimLaunch
    \/ SimStep
    \/ SimAbort
    \/ SimLand
    \/ SimEmit

SimSpec == SimInit /\ [][SimNext]_vars

\* the thread that made the call keeps running it until the call has ended
SimRuns == s_pc \notin {"done", "aborted"} /\ s_steps' = s_steps + 1
SimFairSpec == SimSpec /\ WF_s_steps(SimRuns)

\* ------------------------------------------------- keys and results of two inputs
\* line 200 for each input of KeyInputs
KeySimulated ==
    [i \in KeyIds |-> compute_ballistic(KeyInputs[i].proj, KeyInputs[i].sensitivity)]

KeyInit ==
    /\ CacheIdle
    /\ SimIdle
    /\ HelperIdle
    /\ CliIdle
    /\ k_pc = "start"
    /\ k_a \in KeyIds
    /\ k_b \in KeyIds
    /\ k_keys = <<>>
    /\ k_results = <<>>

\* line 196 for both inputs
KeyBuild ==
    /\ k_pc = "start"
    /\ k_keys' = <<BallisticKey_new(KeyInputs[k_a].proj, KeyInputs[k_a].sensitivity),
                   BallisticKey_new(KeyInputs[k_b].proj, KeyInputs[k_b].sensitivity)>>
    /\ k_pc' = "keyed"
    /\ UNCHANGED <<k_a, k_b, k_results, simVars, cacheVars, helperVars, cliVars>>

\* line 200 for both inputs
KeyCompute ==
    /\ k_pc = "keyed"
    /\ k_results' = <<KeySimulated[k_a], KeySimulated[k_b]>>
    /\ k_pc' = "done"
    /\ UNCHANGED <<k_a, k_b, k_keys, simVars, cacheVars, helperVars, cliVars>>

KeyNext == KeyBuild \/ KeyCompute

KeySpec == KeyInit /\ [][KeyNext]_vars

\* ------------------------------------------------- the helpers, one call each
\* the longest time of flight of a fmt_time call, in timesteps of DT
MaxCentiseconds == 1204

\* Init draws one call: a family tag (those the code names and some it does
\* not); a record whose DeMarre fields are each 0.0, -0.0, non-zero or NaN;
\* a record of each family with every field of every penetration rule set,
\* or a sabot record with no, a one-point or a three-point armor-power curve
\* and a distance below, on, between and beyond its breakpoints; a query
\* of one of the two fixed tables, on, between and beyond its breakpoints.
HelperInit ==
    /\ CacheIdle
    /\ SimIdle
    /\ KeyIdle
    /\ CliIdle
    /\ h_pc = "start"
    /\ h_ret = <<>>
    /\ \/ /\ h_op = "should_skip"
          /\ h_arg \in AP_TYPES \cup APHE_TYPES \cup SKIP_TYPES
                 \cup {"apcr", "apds", "apds_fs", "he", "heat", "hesh", "smoke", "",
                       "sam_tank", "SAM", "atgm ", "rockets", "aa"}
       \/ /\ h_op = "setup"
          /\ h_arg \in {[BaseShell EXCEPT !.demarre_k = a, !.demarre_speed_pow = b,
                                          !.demarre_mass_pow = c, !.demarre_caliber_pow = d] :
                            a \in {FZero(0), FZero(1), Lit(5, -1), FNaN},
                            b \in {FZero(0), FZero(1), Lit(12, -1), FNaN},
                            c \in {FZero(0), FZero(1), Lit(6, -1), FNaN},
                            d \in {FZero(0), FZero(1), Lit(11, -1), FNaN}}
       \/ /\ h_op = "penetration"
          /\ h_arg \in
                {[proj |-> [ApcrShell EXCEPT !.normalized_type = t,
                                !.armor_power_table = SabotShell.armor_power_table],
                  v_impact |-> Lit(8, 2), distance |-> Lit(3, -1)] :
                     t \in AP_TYPES \cup APHE_TYPES
                               \cup {"apcr", "apds", "apds_fs", "he", "heat", "hesh", "smoke", ""}}
                \cup
                {[proj |-> [SabotShell EXCEPT !.armor_power_table = table],
                  v_impact |-> Lit(8, 2), distance |-> distance] :
                     table \in {<<>>, << <<FZero(0), Lit(292, 0)>> >>,
                                SabotShell.armor_power_table},
                     distance \in {FNeg(Lit(1, 0)), FZero(0), Lit(2, -1), Lit(3, -1),
                                   Lit(5, -1), Lit(13, -1), Lit(2, 0), Lit(3, 0),
                                   FInf(0), FNaN}}
       \/ /\ h_op = "fmt_time"
          /\ h_arg \in {Lit(n, -2) : n \in 0..MaxCentiseconds}
       \/ /\ h_op = "interpolate_table"
          /\ h_arg \in {[table |-> table, k |-> k] :
                            table \in {PEN_BY_EXPL, PEN_BY_SUBCALIBER},
                            k \in {FNeg(Lit(1, 0)), FZero(0), FZero(1), Lit(1, -3), Lit(6499, -6),
                                   Lit(65, -4), Lit(1, -2), Lit(16, -3), Lit(18, -3),
                                   Lit(2, -2), Lit(25, -3), Lit(3, -2), Lit(35, -3),
                                   Lit(3999, -5), Lit(4, -2), Lit(1, -1), Lit(15, -2),
                                   Lit(2, -1), Lit(3, -1), Lit(35, -2), Lit(3999, -4),
                                   Lit(4, -1), Lit(1, 0), FInf(0), FInf(1), FNaN}}

\* lines 90-92
HelperShouldSkip ==
    /\ h_pc = "start" /\ h_op = "should_skip"
    /\ h_ret' = should_skip(h_arg)
    /\ h_pc' = "done"
    /\ UNCHANGED <<h_op, h_arg, simVars, cacheVars, keyVars, cliVars>>

\* lines 216-243
HelperSetup ==
    /\ h_pc = "start" /\ h_op = "setup"
    /\ h_ret' = Setup(h_arg, Lit(10, 0))
    /\ h_pc' = "done"
    /\ UNCHANGED <<h_op, h_arg, simVars, cacheVars, keyVars, cliVars>>

\* lines 239-243 and 307-333
HelperPenetration ==
    /\ h_pc = "start" /\ h_op = "penetration"
    /\ h_ret' = Penetration(h_arg.proj, Setup(h_arg.proj, Lit(10, 0)),
                            h_arg.v_impact, h_arg.distance)
    /\ h_pc' = "done"
    /\ UNCHANGED <<h_op, h_arg, simVars, cacheVars, keyVars, cliVars>>

\* lines 376-388
HelperInterpolateTable ==
    /\ h_pc = "start" /\ h_op = "interpolate_table"
    /\ h_ret' = interpolate_table(h_arg.table, h_arg.k)
    /\ h_pc' = "done"
    /\ UNCHANGED <<h_op, h_arg, simVars, cacheVars, keyVars, cliVars>>

\* lines 304 and 411-417: the time of a row, rounded and rendered
HelperFmtTime ==
    /\ h_pc = "start" /\ h_op = "fmt_time"
    /\ h_ret' = fmt_time(FDiv(FRound(FMul(h_arg, Lit(10, 0))), Lit(10, 0)))
    /\ h_pc' = "done"
    /\ UNCHANGED <<h_op, h_arg, simVars, cacheVars, keyVars, cliVars>>

HelperNext ==
    \/ HelperShouldSkip
    \/ HelperSetup
    \/ HelperPenetration
    \/ HelperInterpolateTable
    \/ HelperFmtTime

HelperSpec == HelperInit /\ [][HelperNext]_vars

\* ------------------------------------------------- the batch drivers, one vehicle
\* a light record fired backwards: every simulated distance after the first
\* is negative
BackwardShell == [BaseShell EXCEPT !.name = "75mm_m61_drill", !.speed = FNeg(Lit(10, 0)),
                                   !.mass = Lit(1, -4)]

\* the projectiles a vehicle's list is made of: records that share the
\* output name "m61", a record with the key of BaseShell under another
\* output name, a record with another key and name, and a skip-listed record
DriverShells ==
    << BaseShell,
       TwinShell,
       [ApheShell EXCEPT !.output_name = "m61"],
       HeShell,
       [AtgmShell EXCEPT !.output_name = "m61"],
       BackwardShell >>
DriverSensitivities == {Lit(10, 0), FZero(0)}
MaxProjectiles == 3

\* compute_ballistic for each of them
DriverSimulated ==
    [p \in DOMAIN DriverShells |->
        [s \in DriverSensitivities |-> compute_ballistic(DriverShells[p], s)]]

\* what std::fs::create_dir_all and std::fs::write can answer
IoOutcomes == {"ok", "dir_error", "write_error"}

\* std::fs::write of `{output_name}.txt` in the vehicle's directory
fs_write(files, output_name, content) ==
    [f \in DOMAIN files \cup {output_name \o ".txt"} |->
        IF f = output_name \o ".txt" THEN content ELSE files[f]]

\* a driver that writes a file for every result that is present
WritesFile_any_text(result) == result # None

\* `if let Some(content) = result` and `if content.is_empty() { continue; }`
WritesFile(result) == result # None /\ result.text # ""

\* cli/src/ballistic.rs 81-111: one pass of `for proj in &data.projectiles`
run_ballistic_iter(run, proj, result, io) ==
    IF should_skip(proj.normalized_type) THEN [run EXCEPT !.i = @ + 1]
    ELSE IF ~WritesFile(result) THEN [run EXCEPT !.i = @ + 1]
    ELSE IF ~run.any_written /\ io = "dir_error"
    THEN [run EXCEPT !.failed = @ + 1, !.broke = TRUE]
    ELSE IF io = "write_error"
    THEN [run EXCEPT !.any_written = TRUE, !.failed = @ + 1, !.i = @ + 1]
    ELSE [run EXCEPT !.any_written = TRUE, !.shells_written = @ + 1, !.i = @ + 1,
                     !.files = fs_write(@, proj.output_name, result.text)]

\* run.rs 437-442: the index of the last projectile that is not skip-listed,
\* for each output name
LastByName(list) ==
    LET kept == {j \in DOMAIN list : ~should_skip(DriverShells[list[j]].normalized_type)}
    IN  [name \in {DriverShells[list[j]].output_name : j \in kept} |->
            CHOOSE j \in kept :
                /\ DriverShells[list[j]].output_name = name
                /\ \A m \in kept : DriverShells[list[m]].output_name = name => m <= j]

\* run.rs 450-455: compute_ballistic_cached and the two counters
CachedLookup(run, name, key, computed) ==
    IF key \in DOMAIN run.ballistic_cache
    THEN [run EXCEPT !.left = @ \ {name}, !.result = run.ballistic_cache[key],
                     !.vs.cache_hits = @ + 1]
    ELSE [run EXCEPT !.left = @ \ {name}, !.result = computed,
                     !.vs.cache_misses = @ + 1,
                     !.ballistic_cache = cache_insert(@, key, computed)]

\* run.rs 457-479: what is done with the result
WriteResult(run, proj, io) ==
    IF ~WritesFile(run.result) THEN run
    ELSE IF ~run.dir_created /\ io = "dir_error"
    THEN [run EXCEPT !.vs.ballistic_errors = @ + 1, !.broke = TRUE]
    ELSE IF io = "write_error"
    THEN [run EXCEPT !.dir_created = TRUE, !.vs.ballistic_errors = @ + 1]
    ELSE [run EXCEPT !.dir_created = TRUE, !.vs.shells_written = @ + 1,
                     !.files = fs_write(@, proj.output_name, run.result.text)]

\* run.rs 447-481: one pass of `for &idx in last_by_name.values()`
process_ballistic_iter(run, name, proj, key, computed, io) ==
    WriteResult(CachedLookup(run, name, key, computed), proj, io)

LegacyDone == l_run.broke \/ l_run.i > Len(d_list)
UnifiedDone == u_run.pc = "loop" /\ (u_run.broke \/ u_run.left = {})

DriverInit ==
    /\ CacheIdle
    /\ SimIdle
    /\ KeyIdle
    /\ HelperIdle
    /\ PipelineIdle
    /\ d_list \in UNION {[1..n -> DOMAIN DriverShells] : n \in 0..MaxProjectiles}
    /\ d_sens \in DriverSensitivities
    /\ l_run = [i |-> 1, any_written |-> FALSE, broke |-> FALSE, files |-> <<>>,
                shells_written |-> 0, failed |-> 0]
    /\ u_run = [pc |-> "start", last_by_name |-> <<>>, left |-> {}, result |-> None,
                dir_created |-> FALSE, broke |-> FALSE, files |-> <<>>,
                vs |-> VehicleStats_default, ballistic_cache |-> <<>>]

\* the legacy stage handles its next projectile
LegacyStep ==
    /\ ~LegacyDone
    /\ \E io \in IoOutcomes :
           l_run' = run_ballistic_iter(l_run, DriverShells[d_list[l_run.i]],
                                       DriverSimulated[d_list[l_run.i]][d_sens], io)
    /\ UNCHANGED <<d_list, d_sens, u_run, pipelineVars, simVars, cacheVars, keyVars, helperVars>>

\* the unified stage builds last_by_name
UnifiedDedup ==
    /\ u_run.pc = "start"
    /\ u_run' = [u_run EXCEPT !.pc = "loop", !.last_by_name = LastByName(d_list),
                              !.left = DOMAIN LastByName(d_list)]
    /\ UNCHANGED <<d_list, d_sens, l_run, pipelineVars, simVars, cacheVars, keyVars, helperVars>>

\* the unified stage handles the next entry of last_by_name, in the order
\* the HashMap gives
UnifiedStep ==
    /\ u_run.pc = "loop"
    /\ ~UnifiedDone
    /\ \E name \in u_run.left, io \in IoOutcomes :
           u_run' = process_ballistic_iter(u_run, name,
                        DriverShells[d_list[u_run.last_by_name[name]]],
                        BallisticKey_new(DriverShells[d_list[u_run.last_by_name[name]]], d_sens),
                        DriverSimulated[d_list[u_run.last_by_name[name]]][d_sens], io)
    /\ UNCHANGED <<d_list, d_sens, l_run, pipelineVars, simVars, cacheVars, keyVars, helperVars>>

DriverNext ==
    \/ LegacyStep
    \/ UnifiedDedup
    \/ UnifiedStep

DriverSpec == DriverInit /\ [][DriverNext]_vars

\* ------------------------------------------------- run_pipeline on one output directory
ArchiveVersions == {"2.35.0.10", "2.35.1.4"}
PipelineSensitivities == {Lit(10, 0), Lit(15, 0)}
PipelineConfigs ==
    [sensitivity : PipelineSensitivities, skip_extract : BOOLEAN,
     skip_ballistic : BOOLEAN, write_datamine : BOOLEAN]
MaxRuns == 3

\* `{sensitivity}` in format!: the digits of the value
DisplayF64(x) ==
    IF IsNaN(x) THEN "NaN"
    ELSE IF IsInf(x) THEN (IF x.s = 1 THEN "-inf" ELSE "inf")
    ELSE (IF x.s = 1 THEN "-" ELSE "") \o ToString(x.m) \o "e" \o ToString(x.e)
\* str::parse::<f64>: the value whose digits the text holds, if it holds one
ParseError == [s |-> 2, e |-> 0, m |-> 0]
ParseF64(text) ==
    IF \E x \in PipelineSensitivities : DisplayF64(x) = text
    THEN CHOOSE x \in PipelineSensitivities : DisplayF64(x) = text
    ELSE ParseError
F64_EPSILON == Lit(2220446, -22)

\* the marker file: absent, or the two lines `version\nsensitivity`
NoMarker == [present |-> FALSE, version |-> "", sensitivity |-> ""]
\* the tankmodels directory of Datamine/: absent
NoDatamine == ""
\* an output directory nothing has been written to
EmptyOutput ==
    [marker |-> NoMarker, datamine |-> NoDatamine, data_dir |-> FALSE,
     data_txt |-> FALSE, ballistic_dir |-> FALSE, ballistic_for |-> {}]

\* run.rs 75-125: the cached version if the output is up to date
check_up_to_date(out, version, sensitivity, skip_ballistic) ==
    IF ~out.marker.present THEN None
    ELSE IF ParseF64(out.marker.sensitivity) = ParseError THEN None
    ELSE IF FGt(FAbs(FSub(ParseF64(out.marker.sensitivity), sensitivity)), F64_EPSILON)
    THEN None
    ELSE IF ~out.data_txt THEN None
    ELSE IF ~skip_ballistic /\ ~out.ballistic_dir THEN None
    ELSE IF out.marker.version = version THEN Some(version)
    ELSE None

\* run.rs 128-140
write_marker(out, version, sensitivity) ==
    [out EXCEPT !.marker = [present |-> TRUE, version |-> version,
                            sensitivity |-> DisplayF64(sensitivity)]]

\* run.rs 150-156: Data/ and Ballistic/ are created
CreateOutputDirs(out) == [out EXCEPT !.data_dir = TRUE, !.ballistic_dir = TRUE]

\* the vehicles of the datamine of `version` are converted, their Data/
\* files written and, unless skipped, their ballistic tables computed and
\* written (run_pipeline_in_memory, run_pipeline_from_disk)
ConvertVehicles(out, version, cfg) ==
    [out EXCEPT !.data_txt = TRUE,
                !.ballistic_for = IF cfg.skip_ballistic THEN @
                                  ELSE @ \cup {<<version, cfg.sensitivity>>}]

\* extract::run_extract_in_memory: the .blkx files are written only on request
ExtractInMemory(out, version, cfg) ==
    [out EXCEPT !.datamine = IF cfg.write_datamine THEN version ELSE @]

\* run.rs 144-234, after the directories are there
PipelineOutcome(out, cfg, version) ==
    IF ~cfg.skip_extract
       /\ check_up_to_date(out, version, cfg.sensitivity, cfg.skip_ballistic) # None
    THEN [out |-> out, outcome |-> "up_to_date"]
    ELSE IF cfg.skip_extract /\ out.datamine = NoDatamine
    THEN [out |-> out, outcome |-> "exit"]
    ELSE IF cfg.skip_extract
    THEN [out |-> ConvertVehicles(out, out.datamine, cfg), outcome |-> "ran"]
    ELSE [out |-> write_marker(ConvertVehicles(ExtractInMemory(out, version, cfg),
                                               version, cfg),
                               version, cfg.sensitivity),
          outcome |-> "ran"]

PipelineInit ==
    /\ CacheIdle
    /\ SimIdle
    /\ KeyIdle
    /\ HelperIdle
    /\ DriverIdle
    /\ p_out = EmptyOutput
    /\ p_last = [cfg |-> [sensitivity |-> FZero(0), skip_extract |-> FALSE,
                          skip_ballistic |-> FALSE, write_datamine |-> FALSE],
                 version |-> "", outcome |-> "none"]
    /\ p_runs = 0

\* one run of the program with configuration cfg, the game archive being at `version`
run_pipeline(cfg, version) ==
    /\ p_runs < MaxRuns
    /\ p_runs' = p_runs + 1
    /\ p_out' = PipelineOutcome(CreateOutputDirs(p_out), cfg, version).out
    /\ p_last' = [cfg |-> cfg, version |-> version,
                  outcome |-> PipelineOutcome(CreateOutputDirs(p_out), cfg, version).outcome]
    /\ UNCHANGED <<driverVars, simVars, cacheVars, keyVars, helperVars>>

PipelineNext == \E cfg \in PipelineConfigs, version \in ArchiveVersions : run_pipeline(cfg, version)

PipelineSpec == PipelineInit /\ [][PipelineNext]_vars

\* ------------------------------------------------- properties of the cache
AllKeys == {CallKey(i) : i \in CallIds}

\* the runs of compute_ballistic for key k by the workers 1..w
RECURSIVE RunsUpTo(_, _)
RunsUpTo(w, k) == IF w = 0 THEN 0 ELSE Runs(simBy[w], k) + RunsUpTo(w - 1, k)
SimCount(k) == RunsUpTo(NWorkers, k)

\* C1: whatever calls came before or run alongside, the result a call of
\* compute_ballistic_cached returns is the result compute_ballistic gives for
\* the same record and sensitivity.
C1_CacheTransparency ==
    \A w \in Workers :
        w_ret[w].input # 0 => w_ret[w].result = Simulated[w_ret[w].input]

\* a hit served from a value that was computed for another call
C1_Witness ==
    \E w \in Workers :
        w_ret[w].input # 0 /\ w_ret[w].hit /\ w_ret[w].input \notin inserted

\* C2: when a worker calls twice in a row with the same record and
\* sensitivity and the first call missed, the second call is a hit with the
\* same result and does not run the simulation (the worker has run it once
\* for that key, and is not running it again); a "no output" result is stored
\* and served like any other.
C2_MissThenHit ==
    \A w \in Workers :
        /\ (w_prev[w].input # 0 /\ w_prev[w].input = w_ret[w].input /\ ~w_prev[w].hit)
               => /\ w_ret[w].hit
                  /\ w_ret[w].result = w_prev[w].result
                  /\ Runs(simBy[w], CallKey(w_ret[w].input)) = 1
        /\ (w_ret[w].input # 0 /\ w_pc[w] # "idle") => w_in[w] # w_ret[w].input

\* a miss and then a hit on a skip-listed shell, whose result is "no output"
C2_Witness ==
    \E w \in Workers :
        /\ w_prev[w].input # 0 /\ w_prev[w].input = w_ret[w].input
        /\ ~w_prev[w].hit /\ w_ret[w].hit
        /\ w_ret[w].result = None
        /\ should_skip(CacheCalls[w_ret[w].input].proj.normalized_type)

\* C3 as claimed: over all the calls that share the cache, concurrent ones
\* included, compute_ballistic runs at most once for each distinct key.
C3_SimulateOnce == \A k \in AllKeys : SimCount(k) <= 1

\* C3 as amended: each worker thread runs compute_ballistic at most once for
\* a key whose result has been inserted, its later calls on the key being
\* hits; two threads that both miss on a key before either has inserted both
\* run it, so a key is simulated at most once per thread.
C3_SimulateOncePerWorker ==
    \A i \in inserted :
        /\ \A w \in Workers : Runs(simBy[w], CallKey(i)) <= 1
        /\ SimCount(CallKey(i)) <= NWorkers

\* two workers have both run the simulation for one key and inserted its result
C3_Witness ==
    \E i \in inserted :
        /\ SimCount(CallKey(i)) >= 2
        /\ \A w \in Workers : w_pc[w] = "idle"

\* C4: all the results returned for one record and sensitivity are the same
\* value under every interleaving, also when two workers both miss on the
\* key, both compute and both insert.
C4_SchedulingIndependent == \A i \in CallIds : Cardinality(seen[i]) <= 1

\* two workers both missed on the same call, computed, inserted and returned
C4_Witness ==
    \E w1 \in Workers : \E w2 \in Workers \ {w1} :
        /\ w_ret[w1].input # 0 /\ w_ret[w1].input = w_ret[w2].input
        /\ ~w_ret[w1].hit /\ ~w_ret[w2].hit
        /\ w_pc[w1] = "idle" /\ w_pc[w2] = "idle"

\* C5: once a key has an entry, every later step leaves the key in the cache
\* with the same value, also the insert of a racing worker that missed too.
C5_IdempotentInsert ==
    [][\A k \in DOMAIN cache : k \in DOMAIN cache' /\ cache'[k] = cache[k]]_vars

\* two workers have both inserted for one key, and the entry holds the value
C5_Witness ==
    \E w1 \in Workers : \E w2 \in Workers \ {w1} :
        /\ w_ret[w1].input # 0 /\ w_ret[w2].input # 0
        /\ ~w_ret[w1].hit /\ ~w_ret[w2].hit
        /\ CallKey(w_ret[w1].input) = CallKey(w_ret[w2].input)
        /\ CallKey(w_ret[w1].input) \in DOMAIN cache
        /\ cache[CallKey(w_ret[w1].input)] = w_ret[w1].result
        /\ cache[CallKey(w_ret[w1].input)] = w_ret[w2].result

\* C8: two calls that differ only in name, raw type string or output
\* identifier have equal keys, and a call that looks its key up after the
\* insert of such a twin is a hit that returns the twin's result.
C8_MetadataNotInKey ==
    /\ \A i, j \in CallIds : MetadataTwins(i, j) => CallKey(i) = CallKey(j)
    /\ \A w \in Workers :
           (w_ret[w].input # 0 /\ w_ret[w].twin # 0)
               => w_ret[w].hit /\ w_ret[w].result = Simulated[w_ret[w].twin]

\* a call served from its twin's entry, never computed itself
C8_Witness ==
    \E w \in Workers :
        /\ w_ret[w].input # 0 /\ w_ret[w].twin # 0 /\ w_ret[w].hit
        /\ w_ret[w].input \notin inserted
        /\ CacheCalls[w_ret[w].input].proj.name # CacheCalls[w_ret[w].twin].proj.name
        /\ CacheCalls[w_ret[w].input].proj.bullet_type
               # CacheCalls[w_ret[w].twin].proj.bullet_type
        /\ CacheCalls[w_ret[w].input].proj.output_name
               # CacheCalls[w_ret[w].twin].proj.output_name

\* ------------------------------------------------- properties of the key
KeyFloatFields ==
    {"mass", "ballistic_caliber", "speed", "cx", "explosive_mass", "damage_mass",
     "damage_caliber", "demarre_k", "demarre_speed_pow", "demarre_mass_pow",
     "demarre_caliber_pow"}

\* the parts of the key input in which two inputs have different bit patterns
BitDifferences(a, b) ==
    {f \in KeyFloatFields : a.proj[f] # b.proj[f]}
        \cup (IF a.sensitivity # b.sensitivity THEN {"sensitivity"} ELSE {})
        \cup (IF a.proj.armor_power_table # b.proj.armor_power_table
              THEN {"armor_power_table"} ELSE {})

\* identical except for one float field, the sensitivity or the armor-power curve
OneBitPatternApart(a, b) ==
    /\ a.proj.normalized_type = b.proj.normalized_type
    /\ a.proj.name = b.proj.name
    /\ a.proj.bullet_type = b.proj.bullet_type
    /\ a.proj.output_name = b.proj.output_name
    /\ Cardinality(BitDifferences(a, b)) = 1

\* C6: two inputs with equal keys have identical compute_ballistic results:
\* nothing that compute_ballistic reads is missing from the key.
C6_KeySoundness ==
    (k_pc = "done" /\ k_keys[1] = k_keys[2]) => k_results[1] = k_results[2]

\* two different inputs with equal keys
C6_Witness ==
    /\ k_pc = "done"
    /\ KeyInputs[k_a] # KeyInputs[k_b]
    /\ k_keys[1] = k_keys[2]

\* C7: two inputs that are identical except for the bit pattern of one
\* physics float field, of the sensitivity, or for an element, the order or
\* the length of the armor-power curve have different keys.
C7_NoFalseMerge ==
    (k_pc # "start" /\ OneBitPatternApart(KeyInputs[k_a], KeyInputs[k_b]))
        => k_keys[1] # k_keys[2]

\* two inputs whose only difference is the sign bit of a zero: equal as
\* numbers, different as bit patterns
C7_Witness ==
    /\ k_pc # "start"
    /\ BitDifferences(KeyInputs[k_a], KeyInputs[k_b]) = {"damage_mass"}
    /\ OneBitPatternApart(KeyInputs[k_a], KeyInputs[k_b])
    /\ FEq(KeyInputs[k_a].proj.damage_mass, KeyInputs[k_b].proj.damage_mass)
    /\ k_keys[1] # k_keys[2]

\* ------------------------------------------------- properties of compute_ballistic
\* C9: when the family is skip-listed or the sensitivity is zero or negative
\* the call returns "no output" without simulating any launch angle, and for
\* every other input the call returns a text.
C9_EarlyNoOutput ==
    s_pc \in {"done", "aborted"} =>
        IF should_skip(s_proj.normalized_type) \/ FLe(s_sens, FZero(0))
        THEN s_result = None /\ s_i = 0 /\ s_rows = <<>> /\ s_st = NoFlight
        ELSE s_result.tag = "Some"

\* C10: every call of compute_ballistic runs to completion: it returns.
C10_EveryCallTerminates == <>(s_pc = "done")

\* C11: no call aborts: for every record and sensitivity, the degenerate ones
\* included, the call returns a value (no output, or a text) and never
\* panics or indexes out of bounds.
C11_NoAborts == s_pc # "aborted" /\ s_result \in {None} \cup {Some(s_result.text)}

\* ------------------------------------------------- properties of the emitted table
\* the lines of the first n rows
RECURSIVE RowLines(_, _)
RowLines(rows, n) == IF n = 0 THEN "" ELSE RowLines(rows, n - 1) \o RowLine(rows[n])

\* the rows whose successor has a smaller distance
Decreases(rows) ==
    {j \in 1..(Len(rows) - 1) : FLt(rows[j + 1].distance, rows[j].distance)}
\* the number of rows before the first of them, the final row never counted
RowsBeforeDecrease(rows) ==
    IF Len(rows) = 0 THEN 0
    ELSE IF Decreases(rows) = {} THEN Len(rows) - 1
    ELSE (CHOOSE j \in Decreases(rows) : \A m \in Decreases(rows) : j <= m) - 1

\* C12 as stated: the emitted rows are the rows before the first row whose
\* successor has a smaller distance, in sweep order, and each emitted
\* distance is less than or equal to the next emitted distance.
C12_MonotonicTruncation ==
    s_pc = "done" /\ s_result # None =>
        /\ s_result.text = RowLines(s_rows, RowsBeforeDecrease(s_rows))
        /\ \A j \in 1..(RowsBeforeDecrease(s_rows) - 1) :
               FLe(s_rows[j].distance, s_rows[j + 1].distance)

\* what the comparison of line 349 does give: the emitted rows are the rows
\* before the first row whose successor has a smaller distance, and no
\* emitted distance is smaller than the one before it (a NaN is neither).
TruncatedNeverDecreasing ==
    s_pc = "done" /\ s_result # None =>
        /\ s_result.text = RowLines(s_rows, RowsBeforeDecrease(s_rows))
        /\ \A j \in 1..(RowsBeforeDecrease(s_rows) - 1) :
               ~FLt(s_rows[j + 1].distance, s_rows[j].distance)

\* a table cut at a decrease with rows discarded after it
C12_Witness ==
    /\ s_pc = "done" /\ s_result # None
    /\ RowsBeforeDecrease(s_rows) >= 2
    /\ RowsBeforeDecrease(s_rows) + 2 <= Len(s_rows)

\* ------------------------------------------------- properties of the sweep
\* C13: once a simulated angle has given a distance of MAX_RANGE (4500 m) or
\* more, no later angle is simulated: no flight is in progress after such a
\* row, and only the last simulated row can have such a distance.
C13_SweepEarlyStop ==
    /\ \A j \in 1..(Len(s_rows) - 1) : ~FGe(s_rows[j].distance, MAX_RANGE)
    /\ s_pc = "fly" => \A j \in 1..Len(s_rows) : ~FGe(s_rows[j].distance, MAX_RANGE)

\* a sweep that ended on a row at or beyond MAX_RANGE with angles left
C13_Witness ==
    /\ s_pc = "done" /\ s_rows # <<>>
    /\ FGe(s_rows[Len(s_rows)].distance, MAX_RANGE)
    /\ Len(s_rows) >= 2
    /\ Len(s_rows) < s_c.max_entries

\* pi / 180 * 60 * 1000 in units of 10^-6, and 2.8 in the same units
MaxScanMicro == 1047197551
StepMicro == 2800000
\* floor((pi / 180 * 60 * 1000) / (2.8 * n * n)) for a whole sensitivity n
SampleBound(n) == MaxScanMicro \div (StepMicro * n * n)

\* C14: for a positive sensitivity s the step is 2.8 * s * s, at most
\* floor((pi / 180 * 60 * 1000) / step) angles are simulated, angle number i
\* is step * i / 1000 radians and below the 60 degree maximum scan angle,
\* and the emitted table has no more rows than that bound.
C14_SweepBound ==
    /\ should_skip(s_proj.normalized_type) => s_rows = <<>> /\ s_pc # "fly"
    /\ FGt(s_sens, FZero(0)) /\ ~should_skip(s_proj.normalized_type)
          /\ s_pc \notin {"start", "idle"} =>
        /\ s_c.scroll_step = Lit(28 * IntOf(s_sens) * IntOf(s_sens), -1)
        /\ s_c.max_entries = SampleBound(IntOf(s_sens))
        /\ Len(s_rows) <= SampleBound(IntOf(s_sens))
        /\ s_pc = "fly" =>
              /\ s_i < SampleBound(IntOf(s_sens))
              /\ LaunchAngle(s_c, s_i) = Lit(28 * IntOf(s_sens) * IntOf(s_sens) * s_i, -4)
              /\ FLt(LaunchAngle(s_c, s_i), MaxScanAngle)
        /\ s_pc = "done" =>
              \E n \in 0..SampleBound(IntOf(s_sens)) : s_result.text = RowLines(s_rows, n)

\* a sweep that simulated as many angles as the bound allows
C14_Witness ==
    /\ s_pc = "done" /\ FGt(s_sens, FZero(0))
    /\ Len(s_rows) = SampleBound(IntOf(s_sens))
    /\ Len(s_rows) >= 5
    /\ \A j \in 1..Len(s_rows) : IsFinite(s_rows[j].distance)
    /\ s_result.text # ""

\* the text of the first n rows: per row the distance with three decimals,
\* a tab, the time, a tab, the penetration, a newline
RECURSIVE TableText(_, _)
TableText(rows, n) ==
    IF n = 0 THEN ""
    ELSE TableText(rows, n - 1)
             \o FmtFixed(rows[n].distance, 3) \o "\t"
             \o fmt_time(rows[n].time) \o "\t"
             \o fmt_penetration(rows[n].penetration) \o "\n"

\* C15: the returned text is one line per emitted row, each line the three
\* fields distance (three decimals), time and penetration separated by tabs
\* and ended by a newline, and it is the empty string when fewer than two
\* rows were simulated.
C15_TableRendering ==
    s_pc = "done" /\ s_result # None =>
        /\ s_result.text = TableText(s_rows, RowsBeforeDecrease(s_rows))
        /\ Len(s_rows) < 2 => s_result.text = ""

\* a table of at least two lines with a fractional time in it
C15_Witness ==
    /\ s_pc = "done" /\ s_result # None
    /\ RowsBeforeDecrease(s_rows) >= 2
    /\ IsFinite(s_rows[2].distance)
    /\ fmt_time(s_rows[2].time) \notin {"0", "1"}
    /\ s_result.text # ""

\* ------------------------------------------------- properties of the penetration
\* the tags of lines 242 and 243
SubCaliberTypes == {"apcr", "apds"}
SabotTypes == {"apds_fs"}

\* the penetration of the call in h_arg for another record
PenetrationOf(proj) ==
    Penetration(proj, Setup(proj, Lit(10, 0)), h_arg.v_impact, h_arg.distance)

\* C16: the penetration of a row comes from exactly one rule, chosen by the
\* family tag: the DeMarre formula with the ballistic caliber for the AP
\* tags, the formula with the core caliber for apcr and apds, the armor-power
\* curve for apds_fs, and 0 for every other tag; the skip, AP, sub-caliber
\* and sabot tag sets are pairwise disjoint; the explosive-filler penalty
\* acts only on tags of the AP family.
C16_FamilyDispatch ==
    /\ SKIP_TYPES \cap AP_TYPES = {} /\ SKIP_TYPES \cap SubCaliberTypes = {}
    /\ SKIP_TYPES \cap SabotTypes = {} /\ AP_TYPES \cap SubCaliberTypes = {}
    /\ AP_TYPES \cap SabotTypes = {} /\ SubCaliberTypes \cap SabotTypes = {}
    /\ h_pc = "done" /\ h_op = "penetration" =>
        /\ h_arg.proj.normalized_type \in AP_TYPES =>
              /\ h_ret # PenetrationOf([h_arg.proj EXCEPT !.ballistic_caliber = Lit(1, -1)])
              /\ h_ret = PenetrationOf([h_arg.proj EXCEPT !.damage_caliber = Lit(4, -2),
                                                           !.damage_mass = Lit(2, 0)])
              /\ h_ret = PenetrationOf([h_arg.proj EXCEPT !.armor_power_table = <<>>])
        /\ h_arg.proj.normalized_type \in SubCaliberTypes =>
              /\ h_ret = PenetrationOf([h_arg.proj EXCEPT !.ballistic_caliber = Lit(1, -1)])
              /\ h_ret # PenetrationOf([h_arg.proj EXCEPT !.damage_caliber = Lit(4, -2)])
              /\ h_ret # PenetrationOf([h_arg.proj EXCEPT !.damage_mass = Lit(2, 0)])
              /\ h_ret = PenetrationOf([h_arg.proj EXCEPT !.armor_power_table = <<>>])
        /\ h_arg.proj.normalized_type \in SabotTypes =>
              /\ h_ret = FRound(interpolate_armor_power(h_arg.proj.armor_power_table,
                                                        h_arg.distance))
              /\ h_ret = PenetrationOf([h_arg.proj EXCEPT !.ballistic_caliber = Lit(1, -1),
                                                           !.damage_caliber = Lit(4, -2),
                                                           !.damage_mass = Lit(2, 0)])
        /\ h_arg.proj.normalized_type \notin AP_TYPES \cup SubCaliberTypes \cup SabotTypes =>
              h_ret = FZero(0)
        /\ h_ret # PenetrationOf([h_arg.proj EXCEPT !.explosive_mass = Lit(2, -1)]) <=>
              h_arg.proj.normalized_type \in AP_TYPES \cap APHE_TYPES

\* a tag of both lists: the explosive filler changes the penetration
C16_Witness ==
    /\ h_pc = "done" /\ h_op = "penetration"
    /\ h_arg.proj.normalized_type = "sapcbc"
    /\ IsFinite(h_ret) /\ FGt(h_ret, FZero(0))
    /\ h_ret # PenetrationOf([h_arg.proj EXCEPT !.explosive_mass = Lit(2, -1)])
    /\ h_ret # PenetrationOf([h_arg.proj EXCEPT !.normalized_type = "apcr"])
    /\ h_ret # PenetrationOf([h_arg.proj EXCEPT !.normalized_type = "apds_fs"])

\* the armor-power curve at a distance: the straight line through the
\* first two successive breakpoints that hold the distance, 0 when none do
CurveAt(table, distance) ==
    LET brackets == {j \in 1..(Len(table) - 1) :
                        FGe(distance, table[j][1]) /\ FLt(distance, table[j + 1][1])}
        j == CHOOSE n \in brackets : \A m \in brackets : n <= m
    IN  IF brackets = {} THEN FZero(0)
        ELSE FAdd(table[j][2],
                  FMul(FDiv(FSub(distance, table[j][1]),
                            FSub(table[j + 1][1], table[j][1])),
                       FSub(table[j + 1][2], table[j][2])))

\* C17 as stated: for apds_fs the penetration of a row equals the
\* armor-power curve linearly interpolated at the row's distance between the
\* two bracketing breakpoints, and is 0 outside all intervals.
C17_SabotCurve ==
    h_pc = "done" /\ h_op = "penetration"
        /\ h_arg.proj.normalized_type = "apds_fs" =>
            h_ret = CurveAt(h_arg.proj.armor_power_table, h_arg.distance)

\* C17: for apds_fs the penetration of a row equals the armor-power curve
\* linearly interpolated at the row's distance between the two bracketing
\* breakpoints, rounded to the nearest integer with halves away from zero,
\* and is 0 outside all intervals.
C17_SabotCurveRounded ==
    h_pc = "done" /\ h_op = "penetration"
        /\ h_arg.proj.normalized_type = "apds_fs" =>
            h_ret = FRound(CurveAt(h_arg.proj.armor_power_table, h_arg.distance))

\* a distance between two breakpoints where the curve is not a whole number
C17_Witness ==
    /\ h_pc = "done" /\ h_op = "penetration"
    /\ h_arg.proj.normalized_type = "apds_fs"
    /\ FGt(h_arg.distance, FZero(0))
    /\ FLt(h_arg.distance, Lit(2, 0))
    /\ FRound(CurveAt(h_arg.proj.armor_power_table, h_arg.distance))
           # CurveAt(h_arg.proj.armor_power_table, h_arg.distance)
    /\ h_ret = FRound(CurveAt(h_arg.proj.armor_power_table, h_arg.distance))

\* ------------------------------------------------- properties of the helpers
\* C18: interpolate_table returns exactly the first value for a query below
\* the first breakpoint, exactly the last value for a query at or above the
\* last breakpoint, and the linear interpolation between the two bracketing
\* breakpoints in between; the result is always between the smallest and
\* the largest value of the table.
C18_TableLookupPolicy ==
    h_pc = "done" /\ h_op = "interpolate_table" =>
        /\ FLt(h_arg.k, h_arg.table[1][1]) => h_ret = h_arg.table[1][2]
        /\ FGe(h_arg.k, h_arg.table[Len(h_arg.table)][1]) =>
               h_ret = h_arg.table[Len(h_arg.table)][2]
        /\ \A j \in 1..(Len(h_arg.table) - 1) :
               FGe(h_arg.k, h_arg.table[j][1]) /\ FLt(h_arg.k, h_arg.table[j + 1][1]) =>
                   h_ret = FAdd(h_arg.table[j][2],
                                FMul(FDiv(FSub(h_arg.table[j + 1][2], h_arg.table[j][2]),
                                          FSub(h_arg.table[j + 1][1], h_arg.table[j][1])),
                                     FSub(h_arg.k, h_arg.table[j][1])))
        /\ \E a \in 1..Len(h_arg.table), b \in 1..Len(h_arg.table) :
               FLe(h_arg.table[a][2], h_ret) /\ FLe(h_ret, h_arg.table[b][2])

\* a query strictly inside an interval: the result is no value of the table
C18_Witness ==
    /\ h_pc = "done" /\ h_op = "interpolate_table"
    /\ h_arg.table = PEN_BY_EXPL
    /\ FGt(h_arg.k, Lit(3, -2)) /\ FLt(h_arg.k, Lit(4, -2))
    /\ FGt(h_ret, Lit(75, -2)) /\ FLt(h_ret, Lit(85, -2))

\* C19: each of the four DeMarre parameters is the default (0.9, 1.43, 0.71,
\* 1.07) exactly when the record supplies zero for it, whatever the other
\* three are, and the supplied value unchanged when that is not zero.
C19_DeMarreDefaults ==
    h_pc = "done" /\ h_op = "setup" =>
        /\ h_ret.k = IF IsZero(h_arg.demarre_k) THEN Lit(9, -1) ELSE h_arg.demarre_k
        /\ h_ret.speed_pow =
               IF IsZero(h_arg.demarre_speed_pow) THEN Lit(143, -2)
               ELSE h_arg.demarre_speed_pow
        /\ h_ret.mass_pow =
               IF IsZero(h_arg.demarre_mass_pow) THEN Lit(71, -2)
               ELSE h_arg.demarre_mass_pow
        /\ h_ret.caliber_pow =
               IF IsZero(h_arg.demarre_caliber_pow) THEN Lit(107, -2)
               ELSE h_arg.demarre_caliber_pow

\* a record that supplies two of the four: the other two take the default
C19_Witness ==
    /\ h_pc = "done" /\ h_op = "setup"
    /\ IsZero(h_arg.demarre_k) /\ h_ret.k = Lit(9, -1)
    /\ h_arg.demarre_speed_pow = Lit(12, -1) /\ h_ret.speed_pow = Lit(12, -1)
    /\ IsZero(h_arg.demarre_mass_pow) /\ h_ret.mass_pow = Lit(71, -2)
    /\ h_arg.demarre_caliber_pow = Lit(11, -1) /\ h_ret.caliber_pow = Lit(11, -1)

\* C20: should_skip is true exactly for the tags sam, atgm, rocket and aam
\* and false for every other tag (apcbc, he, apds_fs); it is a function of
\* the tag alone: the call builds no key and runs no simulation.
C20_SkipListMembership ==
    h_pc = "done" /\ h_op = "should_skip" =>
        /\ h_ret = (h_arg \in {"sam", "atgm", "rocket", "aam"})
        /\ h_arg \in {"apcbc", "he", "apds_fs"} => h_ret = FALSE
        /\ SimIdle /\ CacheIdle /\ KeyIdle

\* the call for a skip-listed tag and nothing else done
C20_Witness ==
    /\ h_pc = "done" /\ h_op = "should_skip"
    /\ h_arg = "rocket" /\ h_ret = TRUE
    /\ s_pc = "idle" /\ k_pc = "idle"

\* the time of n timesteps of DT, in tenths of a second: the half goes up
Tenths(n) == (n + 5) \div 10

\* C21: the time written for a row is the time of flight rounded to one
\* decimal place, halves away from zero, rendered without a decimal point
\* when the rounded value is a whole number (0 -> "0", 1 -> "1", 10 -> "10")
\* and with exactly one decimal digit otherwise (0.1 -> "0.1", 3.5 -> "3.5").
C21_TimeRendering ==
    h_pc = "done" /\ h_op = "fmt_time" =>
        \A n \in 0..MaxCentiseconds :
            h_arg = Lit(n, -2) =>
                h_ret = IF Tenths(n) % 10 = 0
                        THEN ToString(Tenths(n) \div 10)
                        ELSE ToString(Tenths(n) \div 10) \o "." \o ToString(Tenths(n) % 10)

\* a time ending in a half hundredth that rounds up to a whole second
C21_Witness ==
    /\ h_pc = "done" /\ h_op = "fmt_time"
    /\ h_arg = Lit(995, -2) /\ h_ret = "10"

\* ------------------------------------------------- the ground crossing
\* the time at height zero on the line through the last two samples
CrossingTime(st) ==
    FAdd(FSub(st.t, DT), FMul(FDiv(DT, FSub(st.y, st.y0)), FNeg(st.y0)))
\* the distance at height zero on the line through the last two samples
CrossingDistance(st) ==
    FAdd(st.x0, FMul(FDiv(FSub(st.x, st.x0), FSub(st.y, st.y0)), FNeg(st.y0)))
OneDecimal(t) == FDiv(FRound(FMul(t, Lit(10, 0))), Lit(10, 0))
LastRow == s_rows[Len(s_rows)]
\* a flight has just ended: s_st still holds its last two samples
JustLanded == s_pc = "sweep" /\ s_rows # <<>>

\* C23 as stated: the reported distance and the reported time of flight are
\* both the linear interpolation at height zero between the last two samples,
\* and the impact velocity is the velocity after the final step
C23_CrossingInterpolatesTime ==
    JustLanded =>
        /\ LastRow.distance = CrossingDistance(s_st)
        /\ LastRow.time = OneDecimal(CrossingTime(s_st))
        /\ LastRow.penetration =
               Penetration(s_proj, s_c,
                   FSqrt(FAdd(FMul(s_st.vx, s_st.vx), FMul(s_st.vy, s_st.vy))),
                   LastRow.distance)

\* C23 amended: the reported distance is the linear interpolation at height
\* zero between the last two samples, the reported time of flight is the time
\* of the first sample that is not at or above the ground (rounded to one
\* decimal), and the impact velocity is the velocity after the final step
C23_CrossingDistanceOnly ==
    JustLanded =>
        /\ LastRow.distance = CrossingDistance(s_st)
        /\ LastRow.time = OneDecimal(s_st.t)
        /\ LastRow.penetration =
               Penetration(s_proj, s_c,
                   FSqrt(FAdd(FMul(s_st.vx, s_st.vx), FMul(s_st.vy, s_st.vy))),
                   LastRow.distance)

\* a landing between two samples whose interpolated time rounds differently
C23_Witness ==
    /\ JustLanded
    /\ Airborne([y |-> s_st.y0]) /\ FLt(s_st.y, FZero(0))
    /\ FLt(s_st.x0, LastRow.distance) /\ FLt(LastRow.distance, s_st.x)
    /\ LastRow.time # OneDecimal(CrossingTime(s_st))

\* ------------------------------------------------- the velocity update
SpeedSq(vx, vy) == FAdd(FMul(vx, vx), FMul(vy, vy))
\* the drag magnitude of a step, from the velocity before the step
PreStepDrag(st, drag_k) == FMul(FMul(drag_k, Density(st.y)), SpeedSq(st.vx, st.vy))
\* the horizontal velocity after the step
NextVx(st, accel) ==
    FSub(st.vx, FMul(FMul(FDiv(accel, FSqrt(SpeedSq(st.vx, st.vy))), st.vx), DT))
\* the vertical velocity after the step, with the magnitude of <<vx, st.vy>>
NextVy(st, accel, vx) ==
    FAdd(st.vy, FMul(FSub(FNeg(G), FMul(FDiv(accel, FSqrt(SpeedSq(vx, st.vy))), st.vy)), DT))
\* SimStep has just run
Stepped == s_pc = "fly" /\ s_pc' = "fly" /\ s_steps' = s_steps + 1

\* C24: in every timestep the drag magnitude comes from the velocity before
\* the step, vx is updated first, the magnitude is recomputed with the new vx
\* and used to update vy (gravity plus drag), and then the position and the
\* time advance with the new velocities
C24_SequentialUpdate ==
    [][Stepped =>
        /\ s_st'.vx = NextVx(s_st, PreStepDrag(s_st, s_c.drag_k))
        /\ s_st'.vy = NextVy(s_st, PreStepDrag(s_st, s_c.drag_k), s_st'.vx)
        /\ s_st'.x = FAdd(s_st.x, FMul(s_st'.vx, DT))
        /\ s_st'.y = FAdd(s_st.y, FMul(s_st'.vy, DT))
        /\ s_st'.t = FAdd(s_st.t, DT)
        /\ s_st'.x0 = s_st.x /\ s_st'.y0 = s_st.y]_vars

\* a flight in progress whose next step differs from the step that updates
\* both components from the velocity before the step
C24_Witness ==
    /\ s_pc = "fly" /\ Airborne(s_st) /\ ~DensityAborts(s_st.y)
    /\ FGt(s_st.t, FZero(0))
    /\ ~IsNaN(s_st.vy)
    /\ EulerStep(s_st, s_c.drag_k).vy
           # NextVy(s_st, PreStepDrag(s_st, s_c.drag_k), s_st.vx)

\* ------------------------------------------------- the density lookup
\* C25: for every altitude y >= 0 a flight reaches, the lookup either reads
\* the entries idx and idx + 1 inside the table or uses the closed-form
\* formula, and the index arithmetic never leaves the table, also when
\* idx saturates
C25_DensityLookupInRange ==
    s_pc = "fly" /\ Airborne(s_st) =>
        \/ /\ DensityIdx(s_st.y) >= 0
           /\ DensityIdx(s_st.y) + 1 < DENSITY_TABLE_LEN
        \/ /\ DensityIdx(s_st.y) + 1 >= DENSITY_TABLE_LEN
           /\ DensityIdx(s_st.y) < USIZE_MAX

\* a flight above the table's ceiling, served by the closed-form formula
C25_Witness ==
    /\ s_pc = "fly" /\ Airborne(s_st)
    /\ DensityIdx(s_st.y) + 1 >= DENSITY_TABLE_LEN
    /\ DensityIdx(s_st.y) < USIZE_MAX
    /\ Density(s_st.y) = Barometric(s_st.y)

\* ------------------------------------------------- the frame of a cache call
\* worker w returns from a call that found its key in the cache
HitStep(w) ==
    /\ w_pc[w] = "idle" /\ w_pc'[w] = "idle"
    /\ n_calls' = n_calls + 1
    /\ w_ret'[w].hit
\* worker w stores the result of a call that missed
InsertStep(w) == w_pc[w] = "insert" /\ w_pc'[w] = "idle"

\* C26: a call that hits leaves the cache unchanged; a call that misses
\* writes the entry of its own key and leaves every other entry as it was;
\* no step removes an entry, so the set of keys only grows
C26_CacheFrame ==
    [][/\ DOMAIN cache \subseteq DOMAIN cache'
       /\ \A w \in Workers : HitStep(w) => cache' = cache
       /\ \A w \in Workers :
              InsertStep(w) =>
                  /\ DOMAIN cache' = DOMAIN cache \cup {w_key[w]}
                  /\ cache'[w_key[w]] = w_res[w]
                  /\ \A k \in DOMAIN cache : k # w_key[w] => cache'[k] = cache[k]
       /\ cache' # cache => \E w \in Workers : InsertStep(w)]_vars

\* a hit and two misses on different keys have happened
C26_Witness ==
    /\ Cardinality(DOMAIN cache) >= 2
    /\ \E w \in Workers : w_ret[w].hit /\ w_ret[w].input # 0
    /\ \A w \in Workers : w_pc[w] = "idle"

\* ------------------------------------------------- the range of the emitted rows
\* the first n rows are emitted, none of them a row whose successor has a
\* smaller distance, and each of them has a distance below MAX_RANGE
EmitsBelowMaxRange(rows, text, n) ==
    /\ text = RowLines(rows, n)
    /\ \A j \in 1..n :
           /\ ~FLt(rows[j + 1].distance, rows[j].distance)
           /\ FLt(rows[j].distance, MAX_RANGE)

\* C27: of the n simulated rows at most n - 1 are emitted, the final row and
\* the row at which a decrease is detected never among them, and every
\* emitted row has a distance strictly below MAX_RANGE (4500 m)
C27_EmittedBelowMaxRange ==
    s_pc = "done" /\ s_result # None =>
        \E n \in 0..Len(s_rows) :
            /\ Len(s_rows) > 0 => n <= Len(s_rows) - 1
            /\ EmitsBelowMaxRange(s_rows, s_result.text, n)

\* a table whose sweep ended on a row at or beyond MAX_RANGE: that row is
\* not emitted, the rows before it are
C27_Witness ==
    /\ s_pc = "done" /\ s_result # None
    /\ Len(s_rows) >= 3
    /\ FGe(s_rows[Len(s_rows)].distance, MAX_RANGE)
    /\ EmitsBelowMaxRange(s_rows, s_result.text, Len(s_rows) - 1)

\* ------------------------------------------------- the cache statistics
\* the reduce of the workers' VehicleStats, for the workers 1..w
RECURSIVE MergedUpTo(_)
MergedUpTo(w) ==
    IF w = 0 THEN VehicleStats_default
    ELSE VehicleStats_merge(MergedUpTo(w - 1), stats[w])
\* every lookup of the batch run has been started and has returned
BatchEnded ==
    /\ n_calls = MaxCalls
    /\ \A w \in Workers : w_pc[w] = "idle"
    /\ \A k \in AllKeys : SimCount(k) > 0 => k \in DOMAIN cache

\* C28: at the end of a parallel batch run the cache misses summed over the
\* workers (the figure printed as "unique") equal the number of distinct keys
\* stored in the cache, and hits plus misses equal the lookups made
C28_MissesAreUniqueKeys ==
    BatchEnded =>
        /\ MergedUpTo(NWorkers).cache_misses = Cardinality(DOMAIN cache)
        /\ MergedUpTo(NWorkers).cache_hits + MergedUpTo(NWorkers).cache_misses = n_calls

\* a batch run with a hit whose misses were all on different keys
C28_Witness ==
    /\ BatchEnded
    /\ MergedUpTo(NWorkers).cache_hits >= 1
    /\ MergedUpTo(NWorkers).cache_misses = Cardinality(DOMAIN cache)
    /\ MergedUpTo(NWorkers).cache_misses >= 2

\* ------------------------------------------------- the files of the batch drivers
\* the computed result is present and not empty
HasTable(result) == result.tag = "Some" /\ result.text # ""
\* the projectile the legacy stage handles next, and its computed result
LegacyProj == DriverShells[d_list[l_run.i]]
LegacyResult == DriverSimulated[d_list[l_run.i]][d_sens]
\* the projectile the unified stage has for an output name, and its computed result
UnifiedProj(name) == DriverShells[d_list[u_run.last_by_name[name]]]
UnifiedResult(name) == DriverSimulated[d_list[u_run.last_by_name[name]]][d_sens]

\* one pass of the legacy loop obeys the rule
LegacyWritesIffTable ==
    IF ~should_skip(LegacyProj.normalized_type) /\ HasTable(LegacyResult)
    THEN \/ /\ l_run'.files = fs_write(l_run.files, LegacyProj.output_name, LegacyResult.text)
            /\ l_run'.shells_written = l_run.shells_written + 1
            /\ l_run'.failed = l_run.failed
            /\ l_run'.any_written
         \/ /\ l_run'.files = l_run.files
            /\ l_run'.shells_written = l_run.shells_written
            /\ l_run'.failed = l_run.failed + 1
    ELSE /\ l_run'.files = l_run.files
         /\ l_run'.any_written = l_run.any_written
         /\ l_run'.shells_written = l_run.shells_written
         /\ l_run'.failed = l_run.failed

\* one pass of the unified loop, for the entry `name`, obeys the rule
UnifiedWritesIffTable(name) ==
    IF HasTable(UnifiedResult(name))
    THEN \/ /\ u_run'.files = fs_write(u_run.files, name, UnifiedResult(name).text)
            /\ u_run'.vs.shells_written = u_run.vs.shells_written + 1
            /\ u_run'.vs.ballistic_errors = u_run.vs.ballistic_errors
            /\ u_run'.dir_created
         \/ /\ u_run'.files = u_run.files
            /\ u_run'.vs.shells_written = u_run.vs.shells_written
            /\ u_run'.vs.ballistic_errors = u_run.vs.ballistic_errors + 1
    ELSE /\ u_run'.files = u_run.files
         /\ u_run'.dir_created = u_run.dir_created
         /\ u_run'.vs.shells_written = u_run.vs.shells_written
         /\ u_run'.vs.ballistic_errors = u_run.vs.ballistic_errors

\* C22: in both batch drivers a table file is written exactly when the
\* computed result is present and not empty (the file system permitting, a
\* refused write being counted as an error); a result that is "no output"
\* or the empty string writes no file, creates no vehicle directory and is
\* not counted as an error
C22_EmptyMeansNoFile ==
    [][/\ l_run' # l_run => LegacyWritesIffTable
       /\ u_run.pc = "loop" /\ u_run' # u_run =>
              \E name \in u_run.left :
                  /\ u_run'.left = u_run.left \ {name}
                  /\ UnifiedWritesIffTable(name)]_vars

\* both drivers are done with a vehicle whose "m61" table is empty and whose
\* "m48" table is not: the only file is m48.txt, and nothing counts as an error
C22_Witness ==
    /\ LegacyDone /\ UnifiedDone
    /\ "m61" \in DOMAIN u_run.last_by_name
    /\ UnifiedResult("m61") = Some("")
    /\ DOMAIN u_run.files = {"m48.txt"} /\ DOMAIN l_run.files = {"m48.txt"}
    /\ u_run.vs.ballistic_errors = 0 /\ l_run.failed = 0
    /\ u_run.dir_created /\ l_run.any_written

\* C29: for every ordered list of a vehicle's projectiles, the unified
\* stage, which handles only the last projectile that is not skip-listed for
\* each output name, leaves the same files with the same contents as the
\* legacy stage, which handles every such projectile in order and lets later
\* writes replace earlier ones (no write being refused in either)
C29_DedupMatchesOverwrite ==
    /\ LegacyDone /\ UnifiedDone
    /\ l_run.failed = 0 /\ u_run.vs.ballistic_errors = 0
    => /\ u_run.files = l_run.files
       /\ u_run.dir_created = l_run.any_written

\* two projectiles with tables under one output name: the legacy stage wrote
\* twice, the unified stage once, and the file is the same
C29_Witness ==
    /\ LegacyDone /\ UnifiedDone
    /\ l_run.shells_written = 2 /\ u_run.vs.shells_written = 1
    /\ DOMAIN l_run.files = {"m61.txt"}
    /\ u_run.files = l_run.files

\* ------------------------------------------------- the freshness check
\* C30: a run with the ballistic stage enabled returns early as "already
\* up-to-date" only if an earlier run on the same output directory, with the
\* same archive version and sensitivity, carried the ballistic stage out; a
\* run with skip_ballistic set does not make a later run skip it
C30_FreshnessSkipJustified ==
    p_last.outcome = "up_to_date" /\ ~p_last.cfg.skip_ballistic =>
        <<p_last.version, p_last.cfg.sensitivity>> \in p_out.ballistic_for

\* a run that returned early after a run that had written the tables
C30_Witness ==
    /\ p_last.outcome = "up_to_date" /\ ~p_last.cfg.skip_ballistic
    /\ <<p_last.version, p_last.cfg.sensitivity>> \in p_out.ballistic_for
    /\ p_out.marker = [present |-> TRUE, version |-> p_last.version,
                       sensitivity |-> DisplayF64(p_last.cfg.sensitivity)]

=============================================================================
